---- MODULE Spec2Model ----
(***************************************************************************)
(* The reference-counted pointer of src/src/arc/reference_counting.rs,     *)
(* modules better_weak and with_weak: one allocation (ArcData), its two    *)
(* atomic counters, the payload and the Arc / Weak handles threads hold.   *)
(* A behaviour runs one of the two modules (variant); the actions of       *)
(* with_weak carry the prefix WW_.                                         *)
(*                                                                         *)
(* Every atomic instruction of the source is one step.  The orderings the  *)
(* source passes (Relaxed / Release / Acquire) and its fences are modelled *)
(* by happens-before knowledge: for each thread, the set of accesses of    *)
(* other threads that are NOT yet ordered before it.                       *)
(*                                                                         *)
(* The channels of src/src/channels/channel.rs, modules simple_channel,     *)
(* one_shot_channel and sender_receiver_channel_with_arc, are modelled in  *)
(* the variable chan and run under specifications of their own.            *)
(***************************************************************************)
EXTENDS Integers, FiniteSets, Sequences, TLC

\* ------------------------------------------------------------------ bounds
NThreads == 2
MaxHandles == 3
Width == 4
NMsgs == 3
MaxSends == 3

Threads == 1..NThreads
USIZE_MAX == 2 ^ Width - 1
Wrap(v) == v % (USIZE_MAX + 1)
AbortThreshold == USIZE_MAX \div 2

\* ------------------------------------------------------------------- state
VARIABLES
    data_ref_count,   \* ArcData::data_ref_count
    alloc_ref_count,  \* ArcData::alloc_ref_count
    NUM_DROPS,        \* how many times the payload's destructor has run
    num_frees,        \* how many times the allocation has been freed
    strongHeld,       \* thread -> number of Arc handles it owns
    weakHeld,         \* thread -> number of Weak handles it owns
    pc,               \* thread -> position inside the operation it executes
    n,                \* thread -> upgrade's local n
    is_unique,        \* thread -> get_mut's local is_unique
    aborted,          \* std::process::abort() has ended the process
    unseen,           \* thread -> accesses of others not ordered before it
    pend,             \* thread -> what a fence would leave unseen
    rel,              \* counter -> what an acquire of its value leaves unseen
    track,            \* the kind of access whose ordering is followed
    faults,           \* undefined behaviour that has happened
    trig,             \* counter values whose decrement led to a free
    seen,             \* thread -> strong handles observed during its upgrade
    result,           \* thread -> what its upgrade is about to return
    gmResult,         \* thread -> what its get_mut is about to return
    variant,          \* the module of the source the behaviour runs
    \* ---- the channels of src/src/channels/channel.rs
    chan              \* the channel: its fields in_use, ready and message,
                      \* each thread's position in its call (chan_pc), the
                      \* message it sends (arg) and how its latest call ended
                      \* (ret), what is_ready has told it (knownReady), the
                      \* ordering of the slot's write (sees, published), the
                      \* park token, the Arc<Channel> count (chan_strong), the
                      \* undefined behaviour met (chan_faults), and a log of
                      \* what has been done to the channel

arcVars == <<data_ref_count, alloc_ref_count, NUM_DROPS, num_frees, strongHeld,
             weakHeld, pc, n, is_unique, aborted, unseen, pend, rel, track,
             faults, trig, seen, result, gmResult, variant>>
vars == <<arcVars, chan>>
Kinds == {"data", "alloc"}
\* Behaviours that follow no ordering let handles of one kind be leaked
\* (std::mem::forget) instead, so that its counter runs up to its limits.
LeakKinds == {"leak_arc", "leak_weak"}
Variants == {"better_weak", "with_weak"}
BetterWeak == variant = "better_weak"
WithWeak == variant = "with_weak"
Counters == {"data_ref_count", "alloc_ref_count"}

\* The sum of f over the threads 1..k.
RECURSIVE SumOver(_, _)
SumOver(f, k) == IF k = 0 THEN 0 ELSE f[k] + SumOver(f, k - 1)

TotalStrong == SumOver(strongHeld, NThreads)
TotalWeak == SumOver(weakHeld, NThreads)

UpgradePcs == {"up_load", "up_cas", "up_clone", "up_ret"}
ArcDropPcs == {"drop_data", "drop_weak"}
\* The handles are bounded: a clone starts only below MaxHandles (a clone
\* under way counted), an upgrade only at or below it.
Reserved == Cardinality({t \in Threads : pc[t] = "clone_data"})
MayCreate == TotalStrong + TotalWeak + Reserved < MaxHandles
MayUpgrade == TotalStrong + TotalWeak + Reserved <= MaxHandles
\* No operation is begun once a counter has wrapped around: what the counters
\* say from then on is followed no further.
Wrapped == faults \cap {"overflow", "underflow"} # {}
Idle(t) == pc[t] = "idle" /\ ~aborted /\ ~Wrapped

\* -------------------------------------------------- memory-ordering model
\* The orderings are followed for one kind of access at a time (track):
\* "data" follows the accesses of the payload, up to its destruction, and
\* "alloc" follows every access of the allocation record (its counters and
\* the payload inside it).  An access of thread t is, when made, ordered
\* before nothing else: t joins the unseen set of every other thread and of
\* every counter.
Follows(k) == track = "alloc" \/ (k = track /\ NUM_DROPS' = 0)
Ev(t, k) == IF Follows(k) THEN {t} ELSE {}

\* A thread that holds an Arc may read the payload (Deref) at any moment, and
\* a thread that holds a handle or is inside an operation may access the
\* allocation at any moment: its latest access is as late as can be.
Readers ==
    IF track = "alloc"
    THEN {t \in Threads :
            strongHeld'[t] >= 1 \/ weakHeld'[t] >= 1 \/ pc'[t] # "idle"}
    ELSE IF NUM_DROPS' = 0 THEN {t \in Threads : strongHeld'[t] >= 1} ELSE {}

IsAcquire(ord) == ord \in {"Acquire", "AcqRel"}
IsRelease(ord) == ord \in {"Release", "AcqRel"}

\* Once the payload is destroyed there is no payload access left to order,
\* and none is ordered where no ordering is followed.
Settled == (track = "data" /\ NUM_DROPS' > 0) \/ track \notin Kinds

\* A thread that holds no handle and executes no operation is credited with
\* no knowledge: whatever it learns next, it learns with the handle it is
\* sent.  So is, where the payload's accesses are followed, a thread that
\* holds no Arc and is neither inside Arc::drop nor inside get_mut.
\* (Crediting a thread with less knowledge can only add races.)
Detached(u) ==
    /\ strongHeld'[u] = 0
    /\ IF track = "data" THEN pc'[u] \in {"idle"} \cup UpgradePcs
       ELSE weakHeld'[u] = 0 /\ pc'[u] = "idle"

\* Only Arc::drop, Weak::drop and get_mut have a fence: a fence is credited
\* with the relaxed atomic reads that precede it in its operation, and a
\* thread at any other position has nothing pending.
NothingPending(t) == Threads \ {t}
FencePcs == {"drop_data", "free", "gm_store", "gm_ret"}

\* The unseen sets f after thread t has made the accesses E.
UnseenAfter(f, t, E) ==
    [u \in Threads |->
       IF Settled THEN {}
       ELSE IF Detached(u) THEN Threads \ {u}
       ELSE (f[u] \cup (IF u = t THEN {} ELSE E) \cup Readers) \ {u}]
PendAfter(f, t, E) ==
    [u \in Threads |->
       IF Settled \/ pc'[u] \notin FencePcs THEN NothingPending(u)
       ELSE (f[u] \cup (IF u = t THEN {} ELSE E) \cup Readers) \ {u}]
RelAfter(f, E) ==
    [x \in Counters |-> IF Settled THEN {} ELSE f[x] \cup E \cup Readers]

\* What thread t has not seen after fence(ord).
Fence(t, ord) == IF IsAcquire(ord) THEN unseen[t] \cap pend[t] ELSE unseen[t]

UseAfterFree == IF num_frees > 0 THEN {"use_after_free"} ELSE {}

\* fetch_add and fetch_sub wrap around: "overflow" is a fetch_add on
\* usize::MAX, "underflow" a fetch_sub on 0.
Value(x) == IF x = "data_ref_count" THEN data_ref_count ELSE alloc_ref_count
ValueAfter(x) ==
    IF x = "data_ref_count" THEN data_ref_count' ELSE alloc_ref_count'
WrapAround(x) ==
    IF Value(x) = USIZE_MAX /\ ValueAfter(x) = 0 THEN {"overflow"}
    ELSE IF Value(x) = 0 /\ ValueAfter(x) = USIZE_MAX THEN {"underflow"}
    ELSE {}

\* The reading half of an atomic load or read-modify-write of counter x.
AtomicRead(t, x, ord) ==
    LET ev == Ev(t, "alloc")
    IN /\ unseen' = UnseenAfter(IF IsAcquire(ord)
                                THEN [unseen EXCEPT ![t] = @ \cap rel[x]]
                                ELSE unseen, t, ev)
       /\ pend' = PendAfter(IF IsAcquire(ord)
                            THEN pend
                            ELSE [pend EXCEPT ![t] = @ \cap rel[x]], t, ev)
       /\ faults' = faults \cup UseAfterFree \cup WrapAround(x)
       /\ UNCHANGED <<track, variant, chan>>

\* An atomic load of counter x by thread t; it is given the counter's latest
\* value.
AtomicLoad(t, x, ord) ==
    /\ AtomicRead(t, x, ord)
    /\ rel' = RelAfter(rel, Ev(t, "alloc"))

\* An atomic read-modify-write of counter x by thread t: it reads the latest
\* value and continues the release sequence that value heads.
AtomicRMW(t, x, ord) ==
    /\ AtomicRead(t, x, ord)
    /\ rel' = IF IsRelease(ord)
              THEN [RelAfter(rel, Ev(t, "alloc")) EXCEPT
                      ![x] = IF Settled THEN {}
                             ELSE (rel[x] \cap unseen[t]) \cup Readers]
              ELSE RelAfter(rel, Ev(t, "alloc"))

\* An atomic store to counter x by thread t: it starts a new release sequence.
AtomicStore(t, x, ord) ==
    /\ unseen' = UnseenAfter(unseen, t, Ev(t, "alloc"))
    /\ pend' = PendAfter(pend, t, Ev(t, "alloc"))
    /\ rel' = [RelAfter(rel, Ev(t, "alloc")) EXCEPT
                 ![x] = IF Settled THEN {}
                        ELSE (IF IsRelease(ord) THEN unseen[t] ELSE Threads)
                               \cup Readers]
    /\ faults' = faults \cup UseAfterFree
    /\ UNCHANGED <<track, variant, chan>>

\* A non-atomic access of the payload by thread t after fence(ord); a write
\* (or the destructor) races with every payload access it has not seen.
PayloadAccess(t, ord, write) ==
    LET known == Fence(t, ord)
        ev == Ev(t, "data")
    IN /\ unseen' = UnseenAfter([unseen EXCEPT ![t] = known], t, ev)
       /\ pend' = PendAfter(pend, t, ev)
       /\ rel' = RelAfter(rel, ev)
       /\ faults' = faults \cup UseAfterFree
                      \cup (IF write /\ track = "data" /\ known # {}
                            THEN {"data_race"} ELSE {})
                      \cup (IF NUM_DROPS > 0 THEN {"use_after_drop"} ELSE {})
       /\ UNCHANGED <<track, variant, chan>>

\* A step that accesses neither the counters nor the payload.
NoAccess ==
    /\ UNCHANGED <<faults, track, variant, chan>>
    /\ unseen' = UnseenAfter(unseen, 1, {})
    /\ pend' = PendAfter(pend, 1, {})
    /\ rel' = RelAfter(rel, {})

\* ------------------------------------------------------- history variables
\* Each step records, for every thread inside upgrade that has not yet
\* decided, the Arcs of the state the step leads to: "live" if an Arc exists
\* whose drop has not begun, else "dropping" if an Arc::drop has not yet
\* completed, else "dead".
Observation(total, dropping) ==
    IF total >= 1 THEN "live" ELSE IF dropping THEN "dropping" ELSE "dead"

\* Behaviours with track = "cas" record, instead of orderings, how upgrade's
\* compare_exchange_weak fails.  "changed" marks an upgrade whose n is out of
\* date: another thread has modified data_ref_count since the upgrade read
\* it.  A failed compare_exchange_weak (fails names the thread) is recorded as
\* "fail_contended" if it found a value other than n, as "fail_spurious" if
\* it found n and nothing had modified the counter since n was read, and as
\* "fail_spurious_aba" if it found n again after modifications.
FailureOf(t) ==
    IF data_ref_count # n[t]
    THEN IF "changed" \in seen[t] THEN "fail_contended" ELSE "fail_unexplained"
    ELSE IF "changed" \in seen[t] THEN "fail_spurious_aba" ELSE "fail_spurious"
CasRecord(t, fails) ==
    IF track # "cas" THEN seen[t]
    ELSE IF t \in fails THEN (seen[t] \ {"changed"}) \cup {FailureOf(t)}
    ELSE IF pc[t] = "up_cas" /\ pc'[t] = "up_cas"
              /\ data_ref_count' # data_ref_count
         THEN seen[t] \cup {"changed"}
    ELSE seen[t]
HistAfter(fails) ==
    seen' = [t \in Threads |->
               IF pc'[t] \in {"up_load", "up_cas"}
               THEN CasRecord(t, fails) \cup
                      {Observation(SumOver(strongHeld', NThreads),
                                   \E u \in Threads : pc'[u] \in ArcDropPcs)}
               ELSE IF pc'[t] \in {"up_clone", "up_ret"}
                    THEN CasRecord(t, fails)
               ELSE {}]
HistStep == HistAfter({})

\* ----------------------------------------------------------------- orderings
ArcCloneOrdering == "Relaxed"
WeakCloneOrdering == "Relaxed"
ArcDropOrdering_Relaxed == "Relaxed"
ArcDropOrdering == "Release"
ArcDropFence == "Acquire"
WeakDropOrdering == "Release"
WeakDropFence == "Acquire"
UpgradeOrdering == "Relaxed"
GetMutCasOrdering == "Acquire"
GetMutStoreOrdering == "Release"
GetMutFence == "Acquire"

\* --------------------------------------------------------------- channels
Msgs == 1..NMsgs
\* MaybeUninit::uninit()
Uninit == 0
NoLog == [swaps |-> 0, wins |-> 0, panics |-> 0, msg |-> Uninit,
          writes |-> 0, stores |-> 0, reads |-> 0, drops |-> 0,
          recvPanics |-> 0, dropped |-> FALSE]
\* How a call of send, is_ready or receive has ended so far: the value its
\* atomic operation returned, its outcome, and the value it returns.
Return(op, old, out, val) ==
    [op |-> op, old |-> old, out |-> out, val |-> val]
\* Channel::new (one_shot_channel) and channel() (with_arc): the slot
\* uninitialized, the flags false; channel() makes an Arc and a clone of it.
ChannelNew(kind) ==
    chan = [channel |-> kind,
            in_use |-> FALSE,
            ready |-> FALSE,
            message |-> Uninit,
            chan_pc |-> [t \in Threads |-> "idle"],
            arg |-> [t \in Threads |-> Uninit],
            ret |-> [t \in Threads |-> Return("none", FALSE, "none", 0)],
            knownReady |-> [t \in Threads |-> FALSE],
            sees |-> [t \in Threads |-> FALSE],
            published |-> FALSE,
            token |-> FALSE,
            chan_strong |-> IF kind = "one_shot_channel" THEN 0 ELSE 2,
            chan_faults |-> {},
            log |-> NoLog]

\* ------------------------------------------------------------------- Init
\* The behaviours of the reference-counted pointer have no channel.
NoChannel == chan = [channel |-> "none"]

\* Arc::new: one Arc, held by thread 1; both counters 1; payload initialized.
ArcNew(kinds, variants) ==
    /\ data_ref_count = 1
    /\ alloc_ref_count = 1
    /\ NUM_DROPS = 0
    /\ num_frees = 0
    /\ strongHeld = [t \in Threads |-> IF t = 1 THEN 1 ELSE 0]
    /\ weakHeld = [t \in Threads |-> 0]
    /\ pc = [t \in Threads |-> "idle"]
    /\ n = [t \in Threads |-> 0]
    /\ is_unique = [t \in Threads |-> FALSE]
    /\ aborted = FALSE
    /\ track \in kinds
    /\ unseen = [t \in Threads |->
                   IF t = 1 \/ track \notin Kinds THEN {} ELSE Threads \ {t}]
    /\ pend = [t \in Threads |-> NothingPending(t)]
    /\ rel = [x \in Counters |-> IF track \in Kinds THEN {1} ELSE {}]
    /\ faults = {}
    /\ trig = {}
    /\ seen = [t \in Threads |-> {}]
    /\ result = [t \in Threads |-> "none"]
    /\ gmResult = [t \in Threads |-> "none"]
    /\ variant \in variants

Init == ArcNew(Kinds, Variants) /\ NoChannel

\* ----------------------------------------------------------- Arc / Weak ops
\* An Arc::clone that makes an Arc without counting it.
ArcClone_NoCount(t) ==
    /\ BetterWeak
    /\ Idle(t) /\ strongHeld[t] >= 1 /\ MayCreate
    /\ strongHeld' = [strongHeld EXCEPT ![t] = @ + 1]
    /\ UNCHANGED <<data_ref_count, alloc_ref_count, NUM_DROPS, num_frees,
                   weakHeld, pc, n, is_unique, aborted, trig, result,
                   gmResult>>
    /\ AtomicLoad(t, "data_ref_count", "Relaxed")
    /\ HistStep

\* A clone that never calls std::process::abort().
CloneMustAbort_Never(old) == FALSE

\* The test both clones make of the value fetch_add returns:
\* > usize::MAX / 2.
CloneMustAbort(old) == old > AbortThreshold

\* impl Clone for Arc: fetch_add(1, Relaxed) on data_ref_count; above
\* usize::MAX / 2 the thread goes on to std::process::abort(), else a new Arc.
ArcClone(t) ==
    /\ BetterWeak
    /\ Idle(t) /\ strongHeld[t] >= 1 /\ MayCreate
    /\ data_ref_count' = Wrap(data_ref_count + 1)
    /\ IF CloneMustAbort(data_ref_count)
       THEN pc' = [pc EXCEPT ![t] = "abort"] /\ UNCHANGED strongHeld
       ELSE strongHeld' = [strongHeld EXCEPT ![t] = @ + 1] /\ UNCHANGED pc
    /\ UNCHANGED <<alloc_ref_count, NUM_DROPS, num_frees, weakHeld, aborted, n,
                   is_unique, trig, result, gmResult>>
    /\ AtomicRMW(t, "data_ref_count", ArcCloneOrdering)
    /\ HistStep

\* impl Clone for Weak: fetch_add(1, Relaxed) on alloc_ref_count; above
\* usize::MAX / 2 the thread goes on to std::process::abort(), else a new
\* Weak.
WeakCloneFrom(t) ==
    /\ alloc_ref_count' = Wrap(alloc_ref_count + 1)
    /\ IF CloneMustAbort(alloc_ref_count)
       THEN pc' = [pc EXCEPT ![t] = "abort"] /\ UNCHANGED weakHeld
       ELSE weakHeld' = [weakHeld EXCEPT ![t] = @ + 1] /\ UNCHANGED pc
    /\ UNCHANGED <<data_ref_count, NUM_DROPS, num_frees, strongHeld, aborted,
                   n, is_unique, trig, result, gmResult>>
    /\ AtomicRMW(t, "alloc_ref_count", WeakCloneOrdering)
    /\ HistStep

WeakClone(t) ==
    /\ BetterWeak
    /\ Idle(t) /\ weakHeld[t] >= 1 /\ MayCreate
    /\ WeakCloneFrom(t)

\* Deriving a Weak from an Arc "by cloning the weak sub-object" (the
\* better_weak module itself defines no downgrade).
Downgrade(t) ==
    /\ BetterWeak
    /\ Idle(t) /\ strongHeld[t] >= 1 /\ MayCreate
    /\ WeakCloneFrom(t)

\* Weak::drop's test of the value its fetch_sub returns: == 1.
WeakDropSawLast_Any(old) == old >= 1
WeakDropSawLast(old) == old = 1

\* Weak::drop's fetch_sub(1, Release) on alloc_ref_count and its test.
WeakDropSub(t) ==
    /\ alloc_ref_count' = Wrap(alloc_ref_count - 1)
    /\ IF WeakDropSawLast(alloc_ref_count)
       THEN /\ pc' = [pc EXCEPT ![t] = "free"]
            /\ trig' = trig \cup {alloc_ref_count}
       ELSE /\ pc' = [pc EXCEPT ![t] = "idle"]
            /\ UNCHANGED trig
    /\ AtomicRMW(t, "alloc_ref_count", WeakDropOrdering)

\* impl Drop for Weak, first step: the decrement.
WeakDropDec(t) ==
    /\ BetterWeak
    /\ Idle(t) /\ weakHeld[t] >= 1
    /\ weakHeld' = [weakHeld EXCEPT ![t] = @ - 1]
    /\ UNCHANGED <<data_ref_count, NUM_DROPS, num_frees, strongHeld, n,
                   is_unique, aborted, result, gmResult>>
    /\ WeakDropSub(t)
    /\ HistStep

\* fence(Acquire); drop(Box::from_raw(..)): the allocation is freed.
DropBox(t) ==
    /\ pc[t] = "free" /\ ~aborted
    /\ num_frees' = num_frees + 1
    /\ pc' = [pc EXCEPT ![t] = "idle"]
    /\ UNCHANGED <<data_ref_count, alloc_ref_count, NUM_DROPS, strongHeld,
                   weakHeld, n, is_unique, aborted, rel, track, trig,
                   result, gmResult, variant, chan>>
    /\ LET known == Fence(t, WeakDropFence)
       IN /\ unseen' = UnseenAfter([unseen EXCEPT ![t] = known], t, {})
          /\ faults' = faults
                        \cup (IF track = "alloc" /\ known # {}
                              THEN {"alloc_race"} ELSE {})
                        \cup (IF num_frees > 0 THEN {"double_free"} ELSE {})
    /\ pend' = PendAfter(pend, t, {})
    /\ HistStep

\* impl Drop for Weak, second step: fence(Acquire); drop(Box::from_raw(..)).
Free(t) ==
    /\ BetterWeak
    /\ DropBox(t)

\* Arc::drop's test of the value its fetch_sub returns: == 1.
ArcDropSawLast_Any(old) == old >= 1
ArcDropSawLast(old) == old = 1

\* impl Drop for Arc, first step: fetch_sub(1, Release) on data_ref_count.
ArcDropDec(t) ==
    /\ BetterWeak
    /\ Idle(t) /\ strongHeld[t] >= 1
    /\ strongHeld' = [strongHeld EXCEPT ![t] = @ - 1]
    /\ data_ref_count' = Wrap(data_ref_count - 1)
    /\ pc' = [pc EXCEPT ![t] = IF ArcDropSawLast(data_ref_count)
                               THEN "drop_data" ELSE "idle"]
    /\ UNCHANGED <<alloc_ref_count, NUM_DROPS, num_frees, weakHeld, n,
                   is_unique, aborted, trig, result, gmResult>>
    /\ AtomicRMW(t, "data_ref_count", ArcDropOrdering)
    /\ HistStep

\* An Arc::drop whose second step leaves the payload's destructor out.
ArcDropData_NoDestructor(t) ==
    /\ BetterWeak
    /\ pc[t] = "drop_data" /\ ~aborted
    /\ pc' = [pc EXCEPT ![t] = "drop_weak"]
    /\ UNCHANGED <<data_ref_count, alloc_ref_count, NUM_DROPS, num_frees,
                   strongHeld, weakHeld, n, is_unique, aborted, trig, result,
                   gmResult>>
    /\ NoAccess
    /\ HistStep

\* impl Drop for Arc, second step: fence(Acquire); ManuallyDrop::drop(data).
ArcDropData(t) ==
    /\ BetterWeak
    /\ pc[t] = "drop_data" /\ ~aborted
    /\ pc' = [pc EXCEPT ![t] = "drop_weak"]
    /\ NUM_DROPS' = NUM_DROPS + 1
    /\ UNCHANGED <<data_ref_count, alloc_ref_count, num_frees, strongHeld,
                   weakHeld, n, is_unique, aborted, trig, result, gmResult>>
    /\ PayloadAccess(t, ArcDropFence, TRUE)
    /\ HistStep

\* An Arc::drop whose third step leaves the implicit Weak undropped.
ArcDropWeak_Skipped(t) ==
    /\ BetterWeak
    /\ pc[t] = "drop_weak" /\ ~aborted
    /\ pc' = [pc EXCEPT ![t] = "idle"]
    /\ UNCHANGED <<data_ref_count, alloc_ref_count, NUM_DROPS, num_frees,
                   strongHeld, weakHeld, n, is_unique, aborted, trig, result,
                   gmResult>>
    /\ NoAccess
    /\ HistStep

\* impl Drop for Arc, third step: drop(Weak { ptr }), the implicit Weak.
ArcDropWeak(t) ==
    /\ BetterWeak
    /\ pc[t] = "drop_weak" /\ ~aborted
    /\ UNCHANGED <<data_ref_count, NUM_DROPS, num_frees, strongHeld, weakHeld,
                   n, is_unique, aborted, result, gmResult>>
    /\ WeakDropSub(t)
    /\ HistStep

\* impl Deref for Arc: a read of the payload through an Arc.
Deref(t) ==
    /\ BetterWeak
    /\ Idle(t) /\ strongHeld[t] >= 1
    /\ UNCHANGED <<data_ref_count, alloc_ref_count, NUM_DROPS, num_frees,
                   strongHeld, weakHeld, pc, n, is_unique, aborted, trig,
                   result, gmResult>>
    /\ PayloadAccess(t, "None", FALSE)
    /\ HistStep

\* Weak::upgrade: the call, before its first instruction.
UpgradeCall(t) ==
    /\ BetterWeak
    /\ Idle(t) /\ weakHeld[t] >= 1 /\ MayUpgrade
    /\ pc' = [pc EXCEPT ![t] = "up_load"]
    /\ UNCHANGED <<data_ref_count, alloc_ref_count, NUM_DROPS, num_frees,
                   strongHeld, weakHeld, n, is_unique, aborted, trig, result,
                   gmResult>>
    /\ NoAccess
    /\ HistStep

\* A failed compare_exchange_weak whose n = e is left out.
CasReload_Stale(t) == n[t]

\* n = e: the value a failed compare_exchange_weak hands back.
CasReload(t) == data_ref_count

\* A loop top without assert!(n < usize::MAX).
UpgradeLoopTop_NoAssert(t, v) ==
    /\ n' = [n EXCEPT ![t] = v]
    /\ pc' = [pc EXCEPT ![t] = IF v = 0 THEN "up_ret" ELSE "up_cas"]
    /\ result' = [result EXCEPT ![t] = IF v = 0 THEN "None" ELSE @]

\* A loop top without the test n == 0.
UpgradeLoopTop_NoZeroCheck(t, v) ==
    /\ n' = [n EXCEPT ![t] = v]
    /\ pc' = [pc EXCEPT ![t] = IF v < USIZE_MAX THEN "up_cas" ELSE "panicked"]
    /\ UNCHANGED result

\* Weak::upgrade, top of the loop with n = v: return None on 0, panic on
\* assert!(n < usize::MAX), else go on to the compare_exchange_weak.
UpgradeLoopTop(t, v) ==
    /\ n' = [n EXCEPT ![t] = v]
    /\ pc' = [pc EXCEPT ![t] = IF v = 0 THEN "up_ret"
                               ELSE IF v < USIZE_MAX THEN "up_cas"
                               ELSE "panicked"]
    /\ result' = [result EXCEPT ![t] = IF v = 0 THEN "None" ELSE @]

\* Weak::upgrade: let mut n = data_ref_count.load(Relaxed).
UpgradeLoad(t) ==
    /\ BetterWeak
    /\ pc[t] = "up_load" /\ ~aborted
    /\ UpgradeLoopTop(t, data_ref_count)
    /\ UNCHANGED <<data_ref_count, alloc_ref_count, NUM_DROPS, num_frees,
                   strongHeld, weakHeld, is_unique, aborted, trig, gmResult>>
    /\ AtomicLoad(t, "data_ref_count", UpgradeOrdering)
    /\ HistStep

\* Weak::upgrade: compare_exchange_weak(n, n + 1, Relaxed, Relaxed) succeeds
\* and Some(Arc) is made, or fails on a changed counter: n = e; continue.
UpgradeCas(t) ==
    /\ BetterWeak
    /\ pc[t] = "up_cas" /\ ~aborted
    /\ UNCHANGED <<alloc_ref_count, NUM_DROPS, num_frees, weakHeld, is_unique,
                   aborted, trig, gmResult>>
    /\ IF data_ref_count = n[t]
       THEN /\ data_ref_count' = Wrap(n[t] + 1)
            /\ strongHeld' = [strongHeld EXCEPT ![t] = @ + 1]
            /\ pc' = [pc EXCEPT ![t] = "up_ret"]
            /\ result' = [result EXCEPT ![t] = "Some"]
            /\ UNCHANGED n
            /\ AtomicRMW(t, "data_ref_count", UpgradeOrdering)
       ELSE /\ UpgradeLoopTop(t, CasReload(t))
            /\ UNCHANGED <<data_ref_count, strongHeld>>
            /\ AtomicLoad(t, "data_ref_count", UpgradeOrdering)
    /\ HistAfter(IF data_ref_count = n[t] THEN {} ELSE {t})

\* An upgrade that returns None when its compare_exchange_weak fails.
UpgradeCasSpurious_GivesUp(t) ==
    /\ BetterWeak
    /\ pc[t] = "up_cas" /\ ~aborted
    /\ data_ref_count = n[t]
    /\ pc' = [pc EXCEPT ![t] = "up_ret"]
    /\ result' = [result EXCEPT ![t] = "None"]
    /\ UNCHANGED <<data_ref_count, alloc_ref_count, NUM_DROPS, num_frees,
                   strongHeld, weakHeld, n, is_unique, aborted, trig, gmResult>>
    /\ AtomicLoad(t, "data_ref_count", UpgradeOrdering)
    /\ HistStep

\* Weak::upgrade: compare_exchange_weak fails although the counter equals n.
UpgradeCasSpurious(t) ==
    /\ BetterWeak
    /\ pc[t] = "up_cas" /\ ~aborted
    /\ data_ref_count = n[t]
    /\ UpgradeLoopTop(t, CasReload(t))
    /\ UNCHANGED <<data_ref_count, alloc_ref_count, NUM_DROPS, num_frees,
                   strongHeld, weakHeld, is_unique, aborted, trig, gmResult>>
    /\ AtomicLoad(t, "data_ref_count", UpgradeOrdering)
    /\ HistAfter({t})

\* Weak::upgrade returns to its caller.
UpgradeReturn(t) ==
    /\ BetterWeak
    /\ pc[t] = "up_ret" /\ ~aborted
    /\ pc' = [pc EXCEPT ![t] = "idle"]
    /\ n' = [n EXCEPT ![t] = 0]
    /\ result' = [result EXCEPT ![t] = "none"]
    /\ UNCHANGED <<data_ref_count, alloc_ref_count, NUM_DROPS, num_frees,
                   strongHeld, weakHeld, is_unique, aborted, trig, gmResult>>
    /\ NoAccess
    /\ HistStep

\* A get_mut whose compare_exchange succeeds from any count but 0.
GetMutCasExpects_Any(v) == v >= 1 /\ v # USIZE_MAX

\* The value get_mut's compare_exchange expects in alloc_ref_count: 1.
GetMutCasExpects(v) == v = 1

\* Weak::get_mut(arc: &mut Weak): compare_exchange(1, usize::MAX, Acquire,
\* Relaxed) on alloc_ref_count; return None if it fails.
GetMutCas(t) ==
    /\ BetterWeak
    /\ Idle(t) /\ weakHeld[t] >= 1
    /\ UNCHANGED <<data_ref_count, NUM_DROPS, num_frees, strongHeld, weakHeld,
                   n, is_unique, aborted, trig, result>>
    /\ IF GetMutCasExpects(alloc_ref_count)
       THEN /\ alloc_ref_count' = USIZE_MAX
            /\ pc' = [pc EXCEPT ![t] = "gm_load"]
            /\ UNCHANGED gmResult
            /\ AtomicRMW(t, "alloc_ref_count", GetMutCasOrdering)
       ELSE /\ pc' = [pc EXCEPT ![t] = "gm_ret"]
            /\ gmResult' = [gmResult EXCEPT ![t] = "None"]
            /\ UNCHANGED alloc_ref_count
            /\ AtomicLoad(t, "alloc_ref_count", "Relaxed")
    /\ HistStep

\* Weak::get_mut: let is_unique = data_ref_count.load(Relaxed) == 1.
GetMutLoad(t) ==
    /\ BetterWeak
    /\ pc[t] = "gm_load" /\ ~aborted
    /\ is_unique' = [is_unique EXCEPT ![t] = (data_ref_count = 1)]
    /\ pc' = [pc EXCEPT ![t] = "gm_store"]
    /\ UNCHANGED <<data_ref_count, alloc_ref_count, NUM_DROPS, num_frees,
                   strongHeld, weakHeld, n, aborted, trig, result, gmResult>>
    /\ AtomicLoad(t, "data_ref_count", "Relaxed")
    /\ HistStep

\* A get_mut whose store leaves the sentinel in place.
GetMutStoreValue_Sentinel == USIZE_MAX

\* The value get_mut stores to release alloc_ref_count: 1.
GetMutStoreValue == 1

\* Weak::get_mut: alloc_ref_count.store(1, Release); if !is_unique, None.
GetMutStore(t) ==
    /\ BetterWeak
    /\ pc[t] = "gm_store" /\ ~aborted
    /\ alloc_ref_count' = GetMutStoreValue
    /\ pc' = [pc EXCEPT ![t] = "gm_ret"]
    /\ gmResult' = [gmResult EXCEPT ![t] = IF is_unique[t] THEN "Some" ELSE "None"]
    /\ UNCHANGED <<data_ref_count, NUM_DROPS, num_frees, strongHeld, weakHeld,
                   n, is_unique, aborted, trig, result>>
    /\ AtomicStore(t, "alloc_ref_count", GetMutStoreOrdering)
    /\ HistStep

\* Weak::get_mut returns: None, or fence(Acquire) and Some(&mut data), a
\* write access to the payload.
GetMutReturn(t) ==
    /\ BetterWeak
    /\ pc[t] = "gm_ret" /\ ~aborted
    /\ pc' = [pc EXCEPT ![t] = "idle"]
    /\ gmResult' = [gmResult EXCEPT ![t] = "none"]
    /\ is_unique' = [is_unique EXCEPT ![t] = FALSE]
    /\ UNCHANGED <<data_ref_count, alloc_ref_count, NUM_DROPS, num_frees,
                   strongHeld, weakHeld, n, aborted, trig, result>>
    /\ IF gmResult[t] = "Some"
       THEN PayloadAccess(t, GetMutFence, TRUE)
       ELSE NoAccess
    /\ HistStep

\* An Arc is handed from thread t to thread u; the hand-over orders what t
\* has done before what u does next.
MoveArc(t, u) ==
    /\ t # u /\ Idle(t) /\ Idle(u) /\ strongHeld[t] >= 1
    /\ strongHeld' = [strongHeld EXCEPT ![t] = @ - 1, ![u] = @ + 1]
    /\ UNCHANGED <<data_ref_count, alloc_ref_count, NUM_DROPS, num_frees,
                   weakHeld, pc, n, is_unique, aborted, pend, track, faults,
                   trig, result, gmResult, variant, chan>>
    /\ unseen' = UnseenAfter([unseen EXCEPT ![u] = @ \cap unseen[t]], t, {})
    /\ rel' = RelAfter(rel, {})
    /\ HistStep

\* A Weak is handed from thread t to thread u.
MoveWeak(t, u) ==
    /\ t # u /\ Idle(t) /\ Idle(u) /\ weakHeld[t] >= 1
    /\ weakHeld' = [weakHeld EXCEPT ![t] = @ - 1, ![u] = @ + 1]
    /\ UNCHANGED <<data_ref_count, alloc_ref_count, NUM_DROPS, num_frees,
                   strongHeld, pc, n, is_unique, aborted, pend, track, faults,
                   trig, result, gmResult, variant, chan>>
    /\ unseen' = UnseenAfter([unseen EXCEPT ![u] = @ \cap unseen[t]], t, {})
    /\ rel' = RelAfter(rel, {})
    /\ HistStep

\* unsafe impl Send for Arc.
SendArc(t, u) ==
    /\ BetterWeak
    /\ MoveArc(t, u)

\* unsafe impl Send for Weak.
SendWeak(t, u) ==
    /\ BetterWeak
    /\ MoveWeak(t, u)

\* std::process::abort(), reached from a clone whose fetch_add returned more
\* than usize::MAX / 2: the process ends.  Until it does, the other threads
\* run on.
Abort(t) ==
    /\ pc[t] = "abort" /\ ~aborted
    /\ aborted' = TRUE
    /\ UNCHANGED <<data_ref_count, alloc_ref_count, NUM_DROPS, num_frees,
                   strongHeld, weakHeld, pc, n, is_unique, trig, result,
                   gmResult>>
    /\ NoAccess
    /\ HistStep

\* An Arc is leaked (std::mem::forget, or a handle that is never dropped):
\* its owner has it no more and data_ref_count still counts it.
ForgetArc(t) ==
    /\ track = "leak_arc"
    /\ Idle(t) /\ strongHeld[t] >= 1
    /\ strongHeld' = [strongHeld EXCEPT ![t] = @ - 1]
    /\ UNCHANGED <<data_ref_count, alloc_ref_count, NUM_DROPS, num_frees,
                   weakHeld, pc, n, is_unique, aborted, trig, result,
                   gmResult>>
    /\ NoAccess
    /\ HistStep

\* A Weak is leaked: alloc_ref_count still counts it.
ForgetWeak(t) ==
    /\ track = "leak_weak"
    /\ Idle(t) /\ weakHeld[t] >= 1
    /\ weakHeld' = [weakHeld EXCEPT ![t] = @ - 1]
    /\ UNCHANGED <<data_ref_count, alloc_ref_count, NUM_DROPS, num_frees,
                   strongHeld, pc, n, is_unique, aborted, trig, result,
                   gmResult>>
    /\ NoAccess
    /\ HistStep

\* ------------------------------------------------------ module with_weak
\* There an Arc is a struct holding a Weak: alloc_ref_count counts the Arcs
\* and the Weaks together, and the payload is an Option that Arc::drop sets
\* to None.
WW_CloneOrdering == "Relaxed"
WW_ArcDropOrdering == "Release"
WW_ArcDropFence == "Acquire"
WW_GetMutOrdering == "Relaxed"
WW_GetMutFence == "Acquire"

\* impl Clone for Arc, first step: let weak = self.weak.clone().
WW_ArcCloneWeak(t) ==
    /\ WithWeak
    /\ Idle(t) /\ strongHeld[t] >= 1 /\ MayCreate
    /\ alloc_ref_count' = Wrap(alloc_ref_count + 1)
    /\ pc' = [pc EXCEPT ![t] = IF CloneMustAbort(alloc_ref_count)
                               THEN "abort" ELSE "clone_data"]
    /\ UNCHANGED <<data_ref_count, NUM_DROPS, num_frees, strongHeld, weakHeld,
                   aborted, n, is_unique, trig, result, gmResult>>
    /\ AtomicRMW(t, "alloc_ref_count", WW_CloneOrdering)
    /\ HistStep

\* impl Clone for Arc, second step: fetch_add(1, Relaxed) on data_ref_count,
\* abort above usize::MAX / 2, else Arc { weak }.
WW_ArcCloneData(t) ==
    /\ WithWeak
    /\ pc[t] = "clone_data" /\ ~aborted
    /\ data_ref_count' = Wrap(data_ref_count + 1)
    /\ IF CloneMustAbort(data_ref_count)
       THEN pc' = [pc EXCEPT ![t] = "abort"] /\ UNCHANGED strongHeld
       ELSE /\ strongHeld' = [strongHeld EXCEPT ![t] = @ + 1]
            /\ pc' = [pc EXCEPT ![t] = "idle"]
    /\ UNCHANGED <<alloc_ref_count, NUM_DROPS, num_frees, weakHeld, aborted,
                   n, is_unique, trig, result, gmResult>>
    /\ AtomicRMW(t, "data_ref_count", WW_CloneOrdering)
    /\ HistStep

\* Arc::downgrade: arc.weak.clone().
WW_Downgrade(t) ==
    /\ WithWeak
    /\ Idle(t) /\ strongHeld[t] >= 1 /\ MayCreate
    /\ WeakCloneFrom(t)

\* impl Clone for Weak.
WW_WeakClone(t) ==
    /\ WithWeak
    /\ Idle(t) /\ weakHeld[t] >= 1 /\ MayCreate
    /\ WeakCloneFrom(t)

\* impl Drop for Weak, first step: fetch_sub(1, Release) on alloc_ref_count.
WW_WeakDropDec(t) ==
    /\ WithWeak
    /\ Idle(t) /\ weakHeld[t] >= 1
    /\ weakHeld' = [weakHeld EXCEPT ![t] = @ - 1]
    /\ UNCHANGED <<data_ref_count, NUM_DROPS, num_frees, strongHeld, n,
                   is_unique, aborted, result, gmResult>>
    /\ WeakDropSub(t)
    /\ HistStep

\* impl Drop for Weak, second step: fence(Acquire); drop(Box::from_raw(..)).
WW_Free(t) ==
    /\ WithWeak
    /\ DropBox(t)

\* Arc::drop's test of the value its fetch_sub returns: == 1.
WW_ArcDropSawLast_Early(old) == old <= 2
WW_ArcDropSawLast(old) == old = 1

\* impl Drop for Arc, first step: fetch_sub(1, Release) on data_ref_count;
\* the field weak is dropped after the body, whatever the outcome.
WW_ArcDropDec(t) ==
    /\ WithWeak
    /\ Idle(t) /\ strongHeld[t] >= 1
    /\ strongHeld' = [strongHeld EXCEPT ![t] = @ - 1]
    /\ data_ref_count' = Wrap(data_ref_count - 1)
    /\ pc' = [pc EXCEPT ![t] = IF WW_ArcDropSawLast(data_ref_count)
                               THEN "drop_data" ELSE "drop_weak"]
    /\ UNCHANGED <<alloc_ref_count, NUM_DROPS, num_frees, weakHeld, n,
                   is_unique, aborted, trig, result, gmResult>>
    /\ AtomicRMW(t, "data_ref_count", WW_ArcDropOrdering)
    /\ HistStep

\* impl Drop for Arc, second step: fence(Acquire); (*ptr) = None, which runs
\* the payload's destructor.
WW_ArcDropData(t) ==
    /\ WithWeak
    /\ pc[t] = "drop_data" /\ ~aborted
    /\ pc' = [pc EXCEPT ![t] = "drop_weak"]
    /\ NUM_DROPS' = NUM_DROPS + 1
    /\ UNCHANGED <<data_ref_count, alloc_ref_count, num_frees, strongHeld,
                   weakHeld, n, is_unique, aborted, trig, result, gmResult>>
    /\ PayloadAccess(t, WW_ArcDropFence, TRUE)
    /\ HistStep

\* The field weak of a dropped Arc is dropped: Weak::drop's decrement.
WW_ArcDropWeak(t) ==
    /\ WithWeak
    /\ pc[t] = "drop_weak" /\ ~aborted
    /\ UNCHANGED <<data_ref_count, NUM_DROPS, num_frees, strongHeld, weakHeld,
                   n, is_unique, aborted, result, gmResult>>
    /\ WeakDropSub(t)
    /\ HistStep

\* impl Deref for Arc: (*ptr).as_ref().unwrap(), which panics on None.
WW_Deref(t) ==
    /\ WithWeak
    /\ Idle(t) /\ strongHeld[t] >= 1
    /\ pc' = [pc EXCEPT ![t] = IF NUM_DROPS > 0 THEN "unwrap_panic" ELSE @]
    /\ UNCHANGED <<data_ref_count, alloc_ref_count, NUM_DROPS, num_frees,
                   strongHeld, weakHeld, n, is_unique, aborted, trig,
                   result, gmResult>>
    /\ PayloadAccess(t, "None", FALSE)
    /\ HistStep

\* Weak::upgrade: the call, before its first instruction.
WW_UpgradeCall(t) ==
    /\ WithWeak
    /\ Idle(t) /\ weakHeld[t] >= 1 /\ MayUpgrade
    /\ pc' = [pc EXCEPT ![t] = "up_load"]
    /\ UNCHANGED <<data_ref_count, alloc_ref_count, NUM_DROPS, num_frees,
                   strongHeld, weakHeld, n, is_unique, aborted, trig, result,
                   gmResult>>
    /\ NoAccess
    /\ HistStep

\* Weak::upgrade: let mut n = data_ref_count.load(Relaxed).
WW_UpgradeLoad(t) ==
    /\ WithWeak
    /\ pc[t] = "up_load" /\ ~aborted
    /\ UpgradeLoopTop(t, data_ref_count)
    /\ UNCHANGED <<data_ref_count, alloc_ref_count, NUM_DROPS, num_frees,
                   strongHeld, weakHeld, is_unique, aborted, trig, gmResult>>
    /\ AtomicLoad(t, "data_ref_count", UpgradeOrdering)
    /\ HistStep

\* Weak::upgrade: compare_exchange_weak(n, n + 1, Relaxed, Relaxed) succeeds,
\* or fails on a changed counter: n = e; continue.
WW_UpgradeCas(t) ==
    /\ WithWeak
    /\ pc[t] = "up_cas" /\ ~aborted
    /\ UNCHANGED <<alloc_ref_count, NUM_DROPS, num_frees, weakHeld, is_unique,
                   aborted, trig, gmResult>>
    /\ IF data_ref_count = n[t]
       THEN /\ data_ref_count' = Wrap(n[t] + 1)
            /\ strongHeld' = [strongHeld EXCEPT ![t] = @ + 1]
            /\ pc' = [pc EXCEPT ![t] = "up_clone"]
            /\ UNCHANGED <<n, result>>
            /\ AtomicRMW(t, "data_ref_count", UpgradeOrdering)
       ELSE /\ UpgradeLoopTop(t, CasReload(t))
            /\ UNCHANGED <<data_ref_count, strongHeld>>
            /\ AtomicLoad(t, "data_ref_count", UpgradeOrdering)
    /\ HistAfter(IF data_ref_count = n[t] THEN {} ELSE {t})

\* Weak::upgrade: compare_exchange_weak fails although the counter equals n.
WW_UpgradeCasSpurious(t) ==
    /\ WithWeak
    /\ pc[t] = "up_cas" /\ ~aborted
    /\ data_ref_count = n[t]
    /\ UpgradeLoopTop(t, CasReload(t))
    /\ UNCHANGED <<data_ref_count, alloc_ref_count, NUM_DROPS, num_frees,
                   strongHeld, weakHeld, is_unique, aborted, trig, gmResult>>
    /\ AtomicLoad(t, "data_ref_count", UpgradeOrdering)
    /\ HistAfter({t})

\* An upgrade that returns an Arc around a Weak it has not counted.
WW_UpgradeClone_NoCount(t) ==
    /\ WithWeak
    /\ pc[t] = "up_clone" /\ ~aborted
    /\ pc' = [pc EXCEPT ![t] = "up_ret"]
    /\ result' = [result EXCEPT ![t] = "Some"]
    /\ UNCHANGED <<data_ref_count, alloc_ref_count, NUM_DROPS, num_frees,
                   strongHeld, weakHeld, aborted, n, is_unique, trig, gmResult>>
    /\ NoAccess
    /\ HistStep

\* Weak::upgrade: return Some(Arc { weak: self.clone() }).
WW_UpgradeClone(t) ==
    /\ WithWeak
    /\ pc[t] = "up_clone" /\ ~aborted
    /\ alloc_ref_count' = Wrap(alloc_ref_count + 1)
    /\ IF CloneMustAbort(alloc_ref_count)
       THEN pc' = [pc EXCEPT ![t] = "abort"] /\ UNCHANGED result
       ELSE /\ pc' = [pc EXCEPT ![t] = "up_ret"]
            /\ result' = [result EXCEPT ![t] = "Some"]
    /\ UNCHANGED <<data_ref_count, NUM_DROPS, num_frees, strongHeld, weakHeld,
                   aborted, n, is_unique, trig, gmResult>>
    /\ AtomicRMW(t, "alloc_ref_count", WW_CloneOrdering)
    /\ HistStep

\* Weak::upgrade returns to its caller.
WW_UpgradeReturn(t) ==
    /\ WithWeak
    /\ pc[t] = "up_ret" /\ ~aborted
    /\ pc' = [pc EXCEPT ![t] = "idle"]
    /\ n' = [n EXCEPT ![t] = 0]
    /\ result' = [result EXCEPT ![t] = "none"]
    /\ UNCHANGED <<data_ref_count, alloc_ref_count, NUM_DROPS, num_frees,
                   strongHeld, weakHeld, is_unique, aborted, trig, gmResult>>
    /\ NoAccess
    /\ HistStep

\* A get_mut that asks the counter of the Arcs, as an Arc without Weak would.
WW_GetMutCounter_Data == data_ref_count

\* Arc::get_mut reads the counter of the Arcs and Weaks combined.
WW_GetMutCounter == alloc_ref_count

\* Arc::get_mut(arc: &mut Arc): alloc_ref_count.load(Relaxed) == 1.
WW_GetMutLoad(t) ==
    /\ WithWeak
    /\ Idle(t) /\ strongHeld[t] >= 1
    /\ is_unique' = [is_unique EXCEPT ![t] = (WW_GetMutCounter = 1)]
    /\ gmResult' = [gmResult EXCEPT
                      ![t] = IF WW_GetMutCounter = 1 THEN "Some" ELSE "None"]
    /\ pc' = [pc EXCEPT ![t] = "gm_ret"]
    /\ UNCHANGED <<data_ref_count, alloc_ref_count, NUM_DROPS, num_frees,
                   strongHeld, weakHeld, n, aborted, trig, result>>
    /\ AtomicLoad(t, "alloc_ref_count", WW_GetMutOrdering)
    /\ HistStep

\* Arc::get_mut returns: None, or fence(Acquire) and Some(&mut data), a
\* write access to the payload; option.as_mut().unwrap() panics on None.
WW_GetMutReturn(t) ==
    /\ WithWeak
    /\ pc[t] = "gm_ret" /\ ~aborted
    /\ pc' = [pc EXCEPT ![t] = IF gmResult[t] = "Some" /\ NUM_DROPS > 0
                               THEN "unwrap_panic" ELSE "idle"]
    /\ gmResult' = [gmResult EXCEPT ![t] = "none"]
    /\ is_unique' = [is_unique EXCEPT ![t] = FALSE]
    /\ UNCHANGED <<data_ref_count, alloc_ref_count, NUM_DROPS, num_frees,
                   strongHeld, weakHeld, n, aborted, trig, result>>
    /\ IF gmResult[t] = "Some"
       THEN PayloadAccess(t, WW_GetMutFence, TRUE)
       ELSE NoAccess
    /\ HistStep

\* An Arc holds a Weak, which is Send.
WW_SendArc(t, u) ==
    /\ WithWeak
    /\ MoveArc(t, u)

\* unsafe impl Send for Weak.
WW_SendWeak(t, u) ==
    /\ WithWeak
    /\ MoveWeak(t, u)

\* ------------------------------------------------------------ specification
Next ==
    \/ \E t \in Threads : ArcClone(t)
    \/ \E t \in Threads : WeakClone(t)
    \/ \E t \in Threads : Downgrade(t)
    \/ \E t \in Threads : WeakDropDec(t)
    \/ \E t \in Threads : Free(t)
    \/ \E t \in Threads : ArcDropDec(t)
    \/ \E t \in Threads : ArcDropData(t)
    \/ \E t \in Threads : ArcDropWeak(t)
    \/ \E t \in Threads : Deref(t)
    \/ \E t \in Threads : UpgradeCall(t)
    \/ \E t \in Threads : UpgradeLoad(t)
    \/ \E t \in Threads : UpgradeCas(t)
    \/ \E t \in Threads : UpgradeCasSpurious(t)
    \/ \E t \in Threads : UpgradeReturn(t)
    \/ \E t \in Threads : GetMutCas(t)
    \/ \E t \in Threads : GetMutLoad(t)
    \/ \E t \in Threads : GetMutStore(t)
    \/ \E t \in Threads : GetMutReturn(t)
    \/ \E t, u \in Threads : SendArc(t, u)
    \/ \E t, u \in Threads : SendWeak(t, u)
    \/ \E t \in Threads : WW_ArcCloneWeak(t)
    \/ \E t \in Threads : WW_ArcCloneData(t)
    \/ \E t \in Threads : WW_Downgrade(t)
    \/ \E t \in Threads : WW_WeakClone(t)
    \/ \E t \in Threads : WW_WeakDropDec(t)
    \/ \E t \in Threads : WW_Free(t)
    \/ \E t \in Threads : WW_ArcDropDec(t)
    \/ \E t \in Threads : WW_ArcDropData(t)
    \/ \E t \in Threads : WW_ArcDropWeak(t)
    \/ \E t \in Threads : WW_Deref(t)
    \/ \E t \in Threads : WW_UpgradeCall(t)
    \/ \E t \in Threads : WW_UpgradeLoad(t)
    \/ \E t \in Threads : WW_UpgradeCas(t)
    \/ \E t \in Threads : WW_UpgradeCasSpurious(t)
    \/ \E t \in Threads : WW_UpgradeClone(t)
    \/ \E t \in Threads : WW_UpgradeReturn(t)
    \/ \E t \in Threads : WW_GetMutLoad(t)
    \/ \E t \in Threads : WW_GetMutReturn(t)
    \/ \E t, u \in Threads : WW_SendArc(t, u)
    \/ \E t, u \in Threads : WW_SendWeak(t, u)

Spec == Init /\ [][Next]_vars

\* better_weak with leaked handles: the counters run up to the abort
\* threshold and to usize::MAX.  (Under Spec, whose handles are all held, a
\* counter never exceeds MaxHandles and no clone aborts.)
InitOverflow ==
    ArcNew(LeakKinds, {"better_weak"}) /\ NoChannel

NextOverflow ==
    \/ \E t \in Threads : ArcClone(t)
    \/ \E t \in Threads : WeakClone(t)
    \/ \E t \in Threads : Downgrade(t)
    \/ \E t \in Threads : WeakDropDec(t)
    \/ \E t \in Threads : Free(t)
    \/ \E t \in Threads : ArcDropDec(t)
    \/ \E t \in Threads : ArcDropData(t)
    \/ \E t \in Threads : ArcDropWeak(t)
    \/ \E t \in Threads : UpgradeCall(t)
    \/ \E t \in Threads : UpgradeLoad(t)
    \/ \E t \in Threads : UpgradeCas(t)
    \/ \E t \in Threads : UpgradeCasSpurious(t)
    \/ \E t \in Threads : UpgradeReturn(t)
    \/ \E t \in Threads : GetMutCas(t)
    \/ \E t \in Threads : GetMutLoad(t)
    \/ \E t \in Threads : GetMutStore(t)
    \/ \E t \in Threads : GetMutReturn(t)
    \/ \E t, u \in Threads : SendArc(t, u)
    \/ \E t, u \in Threads : SendWeak(t, u)
    \/ \E t \in Threads : ForgetArc(t)
    \/ \E t \in Threads : ForgetWeak(t)
    \/ \E t \in Threads : Abort(t)

SpecOverflow == InitOverflow /\ [][NextOverflow]_vars

\* Both modules, with the failures of upgrade's compare_exchange_weak on
\* record.  A thread inside upgrade is scheduled again and again, and its
\* compare_exchange_weak does not fail spuriously for ever.
InitCas == ArcNew({"cas"}, Variants) /\ NoChannel
UpgradeStep(t) ==
    \/ UpgradeLoad(t) \/ UpgradeCas(t) \/ UpgradeReturn(t)
    \/ WW_UpgradeLoad(t) \/ WW_UpgradeCas(t) \/ WW_UpgradeClone(t)
    \/ WW_UpgradeReturn(t)
SpecCas ==
    InitCas /\ [][Next]_vars /\ \A t \in Threads : WF_vars(UpgradeStep(t))

\* ================================================== with_weak, a shared Weak
\* Weak is Sync: a thread may call upgrade through a Weak that another thread
\* owns (a scoped thread borrowing it, say).  While a Weak is lent like this
\* its owner cannot drop it.
Lent == \E t \in Threads : pc[t] \in UpgradePcs /\ weakHeld[t] = 0

\* Weak::upgrade(&self), called through a Weak the thread does not own.
WW_UpgradeCallShared(t) ==
    /\ WithWeak
    /\ Idle(t) /\ weakHeld[t] = 0 /\ TotalWeak >= 1 /\ MayUpgrade
    /\ pc' = [pc EXCEPT ![t] = "up_load"]
    /\ UNCHANGED <<data_ref_count, alloc_ref_count, NUM_DROPS, num_frees,
                   strongHeld, weakHeld, n, is_unique, aborted, trig, result,
                   gmResult>>
    /\ NoAccess
    /\ HistStep

\* impl Drop for Weak, of a Weak that is not the one lent.
WW_WeakDropUnlent(t) ==
    /\ Lent => TotalWeak >= 2
    /\ WW_WeakDropDec(t)

InitShared ==
    ArcNew({"shared"}, {"with_weak"}) /\ NoChannel
NextShared ==
    \/ \E t \in Threads : WW_ArcCloneWeak(t)
    \/ \E t \in Threads : WW_ArcCloneData(t)
    \/ \E t \in Threads : WW_Downgrade(t)
    \/ \E t \in Threads : WW_WeakClone(t)
    \/ \E t \in Threads : WW_WeakDropUnlent(t)
    \/ \E t \in Threads : WW_Free(t)
    \/ \E t \in Threads : WW_ArcDropDec(t)
    \/ \E t \in Threads : WW_ArcDropData(t)
    \/ \E t \in Threads : WW_ArcDropWeak(t)
    \/ \E t \in Threads : WW_UpgradeCall(t)
    \/ \E t \in Threads : WW_UpgradeCallShared(t)
    \/ \E t \in Threads : WW_UpgradeLoad(t)
    \/ \E t \in Threads : WW_UpgradeCas(t)
    \/ \E t \in Threads : WW_UpgradeCasSpurious(t)
    \/ \E t \in Threads : WW_UpgradeClone(t)
    \/ \E t \in Threads : WW_UpgradeReturn(t)
    \/ \E t \in Threads : WW_GetMutLoad(t)
    \/ \E t \in Threads : WW_GetMutReturn(t)
    \/ \E t, u \in Threads : WW_SendArc(t, u)
    \/ \E t, u \in Threads : WW_SendWeak(t, u)
SpecShared == InitShared /\ [][NextShared]_vars

\* ============================================================ one_shot_channel
\* Every call of send, is_ready and receive may come from any thread, one
\* after another or at once (Channel is Sync); a panic ends the call, not
\* the thread, as under catch_unwind or in a scoped thread of its own.
OneShot == chan.channel = "one_shot_channel"
ChanIdle(t) == chan.chan_pc[t] = "idle" /\ ~chan.log.dropped

SendStoreOrdering_Relaxed == "Relaxed"
SendStoreOrdering == "Release"
ReceiveSwapOrdering_Relaxed == "Relaxed"
ReceiveSwapOrdering == "Acquire"

\* A send whose swap leaves in_use unset.
InUseAfterSwap_Unset == FALSE
\* self.in_use.swap(true, Relaxed)
InUseAfterSwap == TRUE
\* A receive whose swap leaves ready set.
ReadyAfterSwap_Set == TRUE
\* self.ready.swap(false, Acquire)
ReadyAfterSwap == FALSE

\* send: if self.in_use.swap(true, Relaxed) { panic!(..) }
SendSwap(t, m) ==
    /\ OneShot
    /\ ChanIdle(t)
    /\ chan.log.swaps < MaxSends
    /\ chan' = IF chan.in_use
               THEN [chan EXCEPT
                       !.in_use = InUseAfterSwap,
                       !.ret[t] = Return("send", TRUE, "panic", 0),
                       !.log.swaps = @ + 1,
                       !.log.panics = @ + 1]
               ELSE [chan EXCEPT
                       !.in_use = InUseAfterSwap,
                       !.ret[t] = Return("send", FALSE, "none", 0),
                       !.log.swaps = @ + 1,
                       !.log.wins = @ + 1,
                       !.log.msg = m,
                       !.chan_pc[t] = "send_write",
                       !.arg[t] = m]
    /\ UNCHANGED arcVars

\* The slot is written while another thread is reading or writing it.
SlotRace(t) ==
    \E u \in Threads \ {t} : chan.chan_pc[u] \in {"send_write", "recv_read"}

\* send: (*self.message.get()).write(message)
SendWrite(t) ==
    /\ OneShot
    /\ chan.chan_pc[t] = "send_write"
    /\ chan' = [chan EXCEPT
                  !.message = chan.arg[t],
                  !.sees = [u \in Threads |-> u = t],
                  !.published = FALSE,
                  !.chan_faults =
                      @ \cup (IF SlotRace(t) THEN {"data_race"} ELSE {})
                        \cup (IF chan.log.writes
                                   > chan.log.reads + chan.log.drops
                              THEN {"overwritten"} ELSE {}),
                  !.log.writes = @ + 1,
                  !.chan_pc[t] = "send_store"]
    /\ UNCHANGED arcVars

\* send: self.ready.store(true, Release)
SendStore(t) ==
    /\ OneShot
    /\ chan.chan_pc[t] = "send_store"
    /\ chan' = [chan EXCEPT
                  !.ready = TRUE,
                  !.published = (IsRelease(SendStoreOrdering) /\ chan.sees[t]),
                  !.log.stores = @ + 1,
                  !.chan_pc[t] = "idle",
                  !.ret[t] = Return("send", FALSE, "ok", 0)]
    /\ UNCHANGED arcVars

\* is_ready: self.ready.load(Relaxed)
IsReady(t) ==
    /\ OneShot
    /\ ChanIdle(t)
    /\ chan' = [chan EXCEPT
                  !.ret[t] = Return("is_ready", chan.ready, "ok", 0),
                  !.knownReady[t] = @ \/ chan.ready]
    /\ UNCHANGED arcVars

\* receive: if !self.ready.swap(false, Acquire) { panic!(..) }
ReceiveSwap(t) ==
    /\ OneShot
    /\ ChanIdle(t)
    /\ chan' = IF chan.ready
               THEN [chan EXCEPT
                       !.ready = ReadyAfterSwap,
                       !.knownReady = [u \in Threads |-> FALSE],
                       !.ret[t] = Return("receive", TRUE, "none", 0),
                       !.chan_pc[t] = "recv_read",
                       !.sees[t] = @ \/ (IsAcquire(ReceiveSwapOrdering)
                                           /\ chan.published)]
               ELSE [chan EXCEPT
                       !.ready = ReadyAfterSwap,
                       !.knownReady = [u \in Threads |-> FALSE],
                       !.ret[t] = Return("receive", FALSE, "panic", 0),
                       !.log.recvPanics = 1]
    /\ UNCHANGED arcVars

\* What assume_init_read meets in the slot: {} when the read is defined.
ReadFaults(t) ==
    (IF chan.message = Uninit THEN {"read_uninit"} ELSE {})
      \cup (IF ~chan.sees[t] \/ SlotRace(t) THEN {"data_race"} ELSE {})
      \cup (IF chan.log.reads + chan.log.drops >= chan.log.writes
                 /\ chan.message # Uninit
            THEN {"read_twice"} ELSE {})

\* assume_init_read, by thread t, which goes on at position next: it returns
\* the value in the slot, or anything at all when the read is undefined.
SlotRead(t, next) ==
    \E v \in 0..NMsgs :
        /\ ReadFaults(t) \cap {"read_uninit", "data_race"} = {}
              => v = chan.message
        /\ chan' = [chan EXCEPT
                      !.chan_faults = @ \cup ReadFaults(t),
                      !.ret[t] =
                          IF ReadFaults(t) \cap {"read_uninit", "data_race"}
                               = {}
                          THEN Return("receive", TRUE, "value", v)
                          ELSE Return("receive", TRUE, "garbage", v),
                      !.log.reads = @ + 1,
                      !.chan_pc[t] = next]

\* receive: (*self.message.get()).assume_init_read()
ReceiveRead(t) ==
    /\ OneShot
    /\ chan.chan_pc[t] = "recv_read"
    /\ SlotRead(t, "idle")
    /\ UNCHANGED arcVars

\* Drop for Channel: if *self.ready.get_mut() { assume_init_drop() }, on
\* channel state c.
DropChannel(c) ==
    [c EXCEPT
       !.log.dropped = TRUE,
       !.log.drops = IF c.ready THEN @ + 1 ELSE @,
       !.chan_faults =
           @ \cup (IF c.ready /\ c.message = Uninit
                   THEN {"drop_uninit"} ELSE {})
             \cup (IF c.ready /\ c.message # Uninit
                      /\ c.log.reads + c.log.drops >= c.log.writes
                   THEN {"dropped_twice"} ELSE {})]

\* The Channel goes out of scope; it does when no call borrows it any more.
ChannelDrop ==
    /\ OneShot
    /\ \A t \in Threads : ChanIdle(t)
    /\ chan' = DropChannel(chan)
    /\ UNCHANGED arcVars

InitOneShot ==
    ArcNew({"data"}, {"better_weak"}) /\ ChannelNew("one_shot_channel")
NextOneShot ==
    \/ \E t \in Threads :
          \/ \E m \in Msgs : SendSwap(t, m)
          \/ SendWrite(t)
          \/ SendStore(t)
          \/ IsReady(t)
          \/ ReceiveSwap(t)
          \/ ReceiveRead(t)
    \/ ChannelDrop
SpecOneShot == InitOneShot /\ [][NextOneShot]_vars

\* ============================================ sender_receiver_channel_with_arc
\* As in test_sender_receiver, the main thread keeps the Receiver and the
\* spawned thread owns the Sender.  The message sent is any of Msgs; the test
\* sends, and expects, Hello.  The test waits for is_ready before it calls
\* receive; a receive that does not wait is followed as well.
WithArc == chan.channel = "sender_receiver_channel_with_arc"
Main == 1
Spawned == 2
Hello == 1

\* Drop of a Sender or a Receiver, on channel state c: the Arc<Channel>
\* inside it is dropped, and the drop of the last one runs Drop for Channel.
HandleDrop(c) ==
    IF c.chan_strong = 1
    THEN [DropChannel(c) EXCEPT !.chan_strong = 0]
    ELSE [c EXCEPT !.chan_strong = @ - 1]

\* Sender::send: (*self.channel.message.get()).write(message)
SR_SendWrite(m) ==
    /\ WithArc
    /\ chan.chan_pc[Spawned] = "idle"
    /\ chan' = [chan EXCEPT
                  !.message = m,
                  !.arg[Spawned] = m,
                  !.sees = [u \in Threads |-> u = Spawned],
                  !.published = FALSE,
                  !.chan_faults =
                      @ \cup (IF SlotRace(Spawned) THEN {"data_race"}
                              ELSE {}),
                  !.log.writes = @ + 1,
                  !.log.msg = m,
                  !.chan_pc[Spawned] = "send_store",
                  !.ret[Spawned] = Return("send", FALSE, "none", 0)]
    /\ UNCHANGED arcVars

\* Sender::send: self.channel.ready.store(true, Release)
SR_SendStore ==
    /\ WithArc
    /\ chan.chan_pc[Spawned] = "send_store"
    /\ chan' = [chan EXCEPT
                  !.ready = TRUE,
                  !.published = (IsRelease(SendStoreOrdering)
                                   /\ chan.sees[Spawned]),
                  !.log.stores = @ + 1,
                  !.chan_pc[Spawned] = "send_drop"]
    /\ UNCHANGED arcVars

\* Sender::send returns: self, the Sender, is dropped.
SR_SenderDrop ==
    /\ WithArc
    /\ chan.chan_pc[Spawned] = "send_drop"
    /\ chan' = [HandleDrop(chan) EXCEPT
                  !.chan_pc[Spawned] = "unpark",
                  !.ret[Spawned] = Return("send", FALSE, "ok", 0)]
    /\ UNCHANGED arcVars

\* t.unpark()
SR_Unpark ==
    /\ WithArc
    /\ chan.chan_pc[Spawned] = "unpark"
    /\ chan' = [chan EXCEPT !.token = TRUE, !.chan_pc[Spawned] = "done"]
    /\ UNCHANGED arcVars

\* while !receiver.is_ready() { .. }: self.channel.ready.load(Relaxed)
SR_IsReady ==
    /\ WithArc
    /\ chan.chan_pc[Main] = "idle"
    /\ chan' = [chan EXCEPT
                  !.ret[Main] = Return("is_ready", chan.ready, "ok", 0),
                  !.knownReady[Main] = @ \/ chan.ready,
                  !.chan_pc[Main] = IF chan.ready THEN "receive" ELSE "park"]
    /\ UNCHANGED arcVars

\* receiver.receive() called without waiting for is_ready: nothing in the
\* signature of Receiver::receive(self) asks for the wait.
SR_ReceiveCall ==
    /\ WithArc
    /\ chan.chan_pc[Main] = "idle"
    /\ chan' = [chan EXCEPT !.chan_pc[Main] = "receive"]
    /\ UNCHANGED arcVars

\* thread::park(): returns when the token is there, and takes it
SR_Park ==
    /\ WithArc
    /\ chan.chan_pc[Main] = "park"
    /\ chan.token
    /\ chan' = [chan EXCEPT !.token = FALSE, !.chan_pc[Main] = "idle"]
    /\ UNCHANGED arcVars

\* thread::park(): may also return without the token (spurious wake-up)
SR_ParkSpurious ==
    /\ WithArc
    /\ chan.chan_pc[Main] = "park"
    /\ ~chan.token
    /\ chan' = [chan EXCEPT !.chan_pc[Main] = "idle"]
    /\ UNCHANGED arcVars

\* Receiver::receive: if !self.channel.ready.swap(false, Acquire) { panic! };
\* the panic unwinds through receive and drops self, the Receiver.
SR_ReceiveSwap ==
    /\ WithArc
    /\ chan.chan_pc[Main] = "receive"
    /\ chan' = IF chan.ready
               THEN [chan EXCEPT
                       !.ready = ReadyAfterSwap,
                       !.knownReady = [u \in Threads |-> FALSE],
                       !.ret[Main] = Return("receive", TRUE, "none", 0),
                       !.chan_pc[Main] = "recv_read",
                       !.sees[Main] = @ \/ (IsAcquire(ReceiveSwapOrdering)
                                              /\ chan.published)]
               ELSE [HandleDrop([chan EXCEPT !.ready = ReadyAfterSwap])
                       EXCEPT
                       !.knownReady = [u \in Threads |-> FALSE],
                       !.ret[Main] = Return("receive", FALSE, "panic", 0),
                       !.chan_pc[Main] = "panicked"]
    /\ UNCHANGED arcVars

\* Receiver::receive: (*self.channel.message.get()).assume_init_read()
SR_ReceiveRead ==
    /\ WithArc
    /\ chan.chan_pc[Main] = "recv_read"
    /\ SlotRead(Main, "recv_drop")
    /\ UNCHANGED arcVars

\* Receiver::receive returns: self, the Receiver, is dropped.
SR_ReceiverDrop ==
    /\ WithArc
    /\ chan.chan_pc[Main] = "recv_drop"
    /\ chan' = [HandleDrop(chan) EXCEPT !.chan_pc[Main] = "assert"]
    /\ UNCHANGED arcVars

\* assert_eq!(receiver.receive(), "hello world!")
SR_AssertEq ==
    /\ WithArc
    /\ chan.chan_pc[Main] = "assert"
    /\ chan' = [chan EXCEPT
                  !.chan_pc[Main] = IF chan.ret[Main].val = Hello THEN "done"
                                    ELSE "panicked"]
    /\ UNCHANGED arcVars

InitSenderReceiver ==
    /\ ArcNew({"data"}, {"better_weak"})
    /\ ChannelNew("sender_receiver_channel_with_arc")
NextSenderReceiver ==
    \/ \E m \in Msgs : SR_SendWrite(m)
    \/ SR_SendStore
    \/ SR_SenderDrop
    \/ SR_Unpark
    \/ SR_IsReady
    \/ SR_ReceiveCall
    \/ SR_Park
    \/ SR_ParkSpurious
    \/ SR_ReceiveSwap
    \/ SR_ReceiveRead
    \/ SR_ReceiverDrop
    \/ SR_AssertEq
SpecSenderReceiver == InitSenderReceiver /\ [][NextSenderReceiver]_vars

\* ============================================================ simple_channel
\* Channel { queue: Mutex<VecDeque<T>>, item_ready: Condvar }, shared by
\* NUsers threads, each of which may call send and receive.  mutex is the
\* thread that holds the lock of queue, or 0; item_ready is the set of the
\* threads blocked in Condvar::wait.  No code runs under the lock that could
\* panic, so the lock is never poisoned and lock().unwrap() does not panic.
\* log.pushed and log.popped are the messages in the order of their
\* push_back and of their pop_front.
NUsers == 3
Users == 1..NUsers
Simple == chan.channel = "simple_channel"

\* Channel::new()
SimpleChannelNew ==
    chan = [channel |-> "simple_channel",
            queue |-> <<>>,
            mutex |-> 0,
            item_ready |-> {},
            chan_pc |-> [t \in Users |-> "idle"],
            arg |-> [t \in Users |-> 0],
            ret |-> [t \in Users |-> Return("none", FALSE, "none", 0)],
            log |-> [sends |-> 0, pushed |-> <<>>, popped |-> <<>>]]

\* A notify_one that wakes no thread.
NotifyOneWakes_Nobody(waiting) == {{}}

\* Condvar::notify_one: one of the threads blocked in wait is woken, if
\* there is one; the sets of threads it may wake.
NotifyOneWakes(waiting) ==
    IF waiting = {} THEN {{}} ELSE {{w} : w \in waiting}

\* Mutex::lock by thread t, which goes on at position next.
MutexLock(t, next) ==
    /\ chan.mutex = 0
    /\ chan' = [chan EXCEPT !.mutex = t, !.chan_pc[t] = next]
    /\ UNCHANGED arcVars

\* send(&self, message) is called.  The channel never looks into a message:
\* the message of the k-th call of send is k, so that each message passed to
\* send can be told from every other.
SC_SendCall(t) ==
    /\ Simple
    /\ chan.chan_pc[t] = "idle"
    /\ chan.log.sends < MaxSends
    /\ chan' = [chan EXCEPT
                  !.chan_pc[t] = "send_lock",
                  !.arg[t] = chan.log.sends + 1,
                  !.ret[t] = Return("send", FALSE, "none", 0),
                  !.log.sends = @ + 1]
    /\ UNCHANGED arcVars

\* send: self.queue.lock().unwrap()
SC_SendLock(t) ==
    /\ Simple
    /\ chan.chan_pc[t] = "send_lock"
    /\ MutexLock(t, "send_push")

\* send: .push_back(message); the guard is dropped at the end of the
\* statement.
SC_SendPush(t) ==
    /\ Simple
    /\ chan.chan_pc[t] = "send_push"
    /\ chan' = [chan EXCEPT
                  !.queue = Append(@, chan.arg[t]),
                  !.mutex = 0,
                  !.chan_pc[t] = "send_notify",
                  !.log.pushed = Append(@, chan.arg[t])]
    /\ UNCHANGED arcVars

\* send: self.item_ready.notify_one(), and send returns.
SC_SendNotify(t) ==
    /\ Simple
    /\ chan.chan_pc[t] = "send_notify"
    /\ \E woken \in NotifyOneWakes(chan.item_ready) :
          chan' = [chan EXCEPT
                     !.item_ready = @ \ woken,
                     !.chan_pc = [u \in Users |->
                                    IF u = t THEN "idle"
                                    ELSE IF u \in woken THEN "recv_relock"
                                    ELSE @[u]],
                     !.arg[t] = 0,
                     !.ret[t] = Return("send", FALSE, "ok", 0)]
    /\ UNCHANGED arcVars

\* receive(&self) is called.
SC_ReceiveCall(t) ==
    /\ Simple
    /\ chan.chan_pc[t] = "idle"
    /\ chan' = [chan EXCEPT
                  !.chan_pc[t] = "recv_lock",
                  !.ret[t] = Return("receive", FALSE, "none", 0)]
    /\ UNCHANGED arcVars

\* receive: let mut b = self.queue.lock().unwrap();
SC_ReceiveLock(t) ==
    /\ Simple
    /\ chan.chan_pc[t] = "recv_lock"
    /\ MutexLock(t, "recv_loop")

\* receive: if let Some(message) = b.pop_front() { return message; }; the
\* guard b is dropped on return.
SC_ReceivePop(t) ==
    /\ Simple
    /\ chan.chan_pc[t] = "recv_loop"
    /\ chan.queue # <<>>
    /\ chan' = [chan EXCEPT
                  !.queue = Tail(@),
                  !.mutex = 0,
                  !.chan_pc[t] = "idle",
                  !.ret[t] = Return("receive", TRUE, "value", Head(chan.queue)),
                  !.log.popped = Append(@, Head(chan.queue))]
    /\ UNCHANGED arcVars

\* receive: pop_front() returned None; b = self.item_ready.wait(b): the lock
\* is released and the thread blocks, in one atomic step.
SC_ReceiveWait(t) ==
    /\ Simple
    /\ chan.chan_pc[t] = "recv_loop"
    /\ chan.queue = <<>>
    /\ chan' = [chan EXCEPT
                  !.mutex = 0,
                  !.item_ready = @ \cup {t},
                  !.chan_pc[t] = "recv_wait"]
    /\ UNCHANGED arcVars

\* Condvar::wait may wake up without a notification.
SC_WaitSpurious(t) ==
    /\ Simple
    /\ chan.chan_pc[t] = "recv_wait"
    /\ chan' = [chan EXCEPT
                  !.item_ready = @ \ {t},
                  !.chan_pc[t] = "recv_relock"]
    /\ UNCHANGED arcVars

\* Condvar::wait, woken, takes the lock again and returns the guard.
SC_WaitRelock(t) ==
    /\ Simple
    /\ chan.chan_pc[t] = "recv_relock"
    /\ MutexLock(t, "recv_loop")

InitSimple == ArcNew({"data"}, {"better_weak"}) /\ SimpleChannelNew
NextSimple ==
    \E t \in Users :
        \/ SC_SendCall(t)
        \/ SC_SendLock(t)
        \/ SC_SendPush(t)
        \/ SC_SendNotify(t)
        \/ SC_ReceiveCall(t)
        \/ SC_ReceiveLock(t)
        \/ SC_ReceivePop(t)
        \/ SC_ReceiveWait(t)
        \/ SC_WaitSpurious(t)
        \/ SC_WaitRelock(t)
SpecSimple == InitSimple /\ [][NextSimple]_vars

\* A call that has begun runs on: its thread is scheduled again and again,
\* and takes the lock if the lock stays free.  Nothing obliges a thread to
\* make a call, and a spurious wake-up may never happen.
SC_Step(t) ==
    \/ SC_SendLock(t) \/ SC_SendPush(t) \/ SC_SendNotify(t)
    \/ SC_ReceiveLock(t) \/ SC_ReceivePop(t) \/ SC_ReceiveWait(t)
    \/ SC_WaitRelock(t)
SpecSimpleFair == SpecSimple /\ \A t \in Users : WF_vars(SC_Step(t))

\* ================================================================== claims
AllIdle == \A t \in Threads : pc[t] = "idle"
InUpgradeReturn(t) == pc[t] = "up_ret"
\* Arc::drop of the last Arc has decremented data_ref_count and has not yet
\* decremented alloc_ref_count.
LastDropPending == \E t \in Threads : pc[t] \in ArcDropPcs
\* get_mut holds alloc_ref_count at the sentinel.
SentinelHeld == \E t \in Threads : pc[t] \in {"gm_load", "gm_store"}

\* C1: the payload's destructor runs at most once; it has not run while an
\* Arc is live; it has run once every Arc is gone and the Arc::drop that took
\* data_ref_count to 0 has passed its ManuallyDrop::drop.
C1_PayloadDestroyedOnce ==
    /\ NUM_DROPS <= 1
    /\ TotalStrong >= 1 => NUM_DROPS = 0
    /\ (TotalStrong = 0 /\ \A t \in Threads : pc[t] # "drop_data")
          => NUM_DROPS = 1

\* C1 witness: the destructor has run while an upgrade that had read a
\* non-zero count is still in flight.
C1_Witness ==
    /\ NUM_DROPS = 1
    /\ \E t \in Threads : pc[t] = "up_cas"

\* C2: the allocation is freed at most once, only by a decrement that took
\* alloc_ref_count from 1 to 0, only when no handle of either kind is left,
\* not before the payload is destroyed, and it is freed once all is dropped.
C2_AllocationFreedOnce ==
    /\ num_frees <= 1
    /\ trig \subseteq {1}
    /\ (\E t \in Threads : pc[t] = "free")
          => alloc_ref_count = 0 /\ num_frees = 0
    /\ (num_frees = 1 \/ \E t \in Threads : pc[t] = "free")
          => TotalStrong = 0 /\ TotalWeak = 0 /\ NUM_DROPS = 1
    /\ (TotalStrong = 0 /\ TotalWeak = 0 /\ AllIdle) => num_frees = 1

\* C2 witness: the allocation has been freed, by the decrement that read 1,
\* after the payload's destruction.
C2_Witness ==
    /\ num_frees = 1
    /\ trig = {1}
    /\ NUM_DROPS = 1

\* C3 as stated: upgrade returns Some if and only if, at some point during
\* the call, an Arc existed whose drop had not fully completed; it never
\* moves data_ref_count from 0 and never returns an Arc to a payload that
\* has been or is being destroyed.
C3_UpgradeIffExisted ==
    /\ \A t \in Threads :
          InUpgradeReturn(t) =>
             (result[t] = "Some" <=> seen[t] \cap {"live", "dropping"} # {})
    /\ (NUM_DROPS >= 1 \/ \E t \in Threads : pc[t] = "drop_data")
          => data_ref_count = 0
    /\ \A t \in Threads :
          (InUpgradeReturn(t) /\ result[t] = "Some") => NUM_DROPS = 0

\* C3 amended: upgrade returns Some only if, at some point during the call,
\* an Arc existed whose drop had not begun, and returns None only if at some
\* point during the call no such Arc existed; it never moves data_ref_count
\* from 0 and never returns an Arc to a payload that has been or is being
\* destroyed.
C3_UpgradeSound ==
    /\ \A t \in Threads :
          InUpgradeReturn(t) =>
             /\ result[t] \in {"Some", "None"}
             /\ result[t] = "Some" => "live" \in seen[t]
             /\ result[t] = "None" => seen[t] \cap {"dropping", "dead"} # {}
    /\ (NUM_DROPS >= 1 \/ \E t \in Threads : pc[t] = "drop_data")
          => data_ref_count = 0
    /\ \A t \in Threads :
          (InUpgradeReturn(t) /\ result[t] = "Some") => NUM_DROPS = 0

\* C3 witness: an upgrade returns None although an Arc whose drop had not
\* begun existed during the call.
C3_Witness ==
    \E t \in Threads :
       InUpgradeReturn(t) /\ result[t] = "None" /\ "live" \in seen[t]

\* C4 as stated, for better_weak's get_mut: it is granted only when one Arc
\* and no Weak exist, and the holder of the only Arc, with no Weak left, can
\* call it and is granted access.
C4_GetMutOnUniqueArc ==
    BetterWeak =>
       /\ \A t \in Threads :
             (pc[t] = "gm_ret" /\ gmResult[t] = "Some")
                => TotalStrong = 1 /\ TotalWeak = 0
       /\ \A t \in Threads :
             (AllIdle /\ ~aborted /\ strongHeld[t] = 1 /\ TotalStrong = 1
                /\ TotalWeak = 0) => ENABLED GetMutCas(t)

\* C5: in both modules, while an Arc is live (one just made by upgrade
\* included), data_ref_count >= 1, the payload is neither destroyed nor
\* about to be, the allocation is neither freed nor about to be, no Deref
\* has read a destroyed or freed payload, and with_weak's unwrap in deref
\* has not panicked.
C5_ArcImpliesLive ==
    /\ TotalStrong >= 1 =>
          /\ data_ref_count >= 1
          /\ NUM_DROPS = 0
          /\ num_frees = 0
          /\ \A t \in Threads : pc[t] \notin {"drop_data", "free"}
    /\ faults \cap {"use_after_drop", "use_after_free"} = {}
    /\ \A t \in Threads : pc[t] # "unwrap_panic"

\* C5 witness: in with_weak, the only live Arc is the one an upgrade has
\* just made, the Arc it was made from being dropped.
C5_Witness ==
    \E t \in Threads :
       /\ WithWeak
       /\ InUpgradeReturn(t) /\ result[t] = "Some"
       /\ TotalStrong = 1 /\ strongHeld[t] = 1

\* C6 as stated: in every state of better_weak alloc_ref_count is the number
\* of Weaks plus one iff data_ref_count > 0.
C6_AllocCountExact ==
    BetterWeak =>
       /\ alloc_ref_count = TotalWeak + (IF data_ref_count > 0 THEN 1 ELSE 0)
       /\ data_ref_count > 0 => alloc_ref_count >= 1

\* C6 amended: alloc_ref_count is the number of Weaks plus one while
\* data_ref_count > 0 or the Arc::drop that took it to 0 has not yet dropped
\* the implicit Weak, except while get_mut holds it at the sentinel.
C6_AllocCountSettled ==
    BetterWeak =>
       /\ ~SentinelHeld =>
             alloc_ref_count = TotalWeak
                + (IF data_ref_count > 0 \/ LastDropPending THEN 1 ELSE 0)
       /\ data_ref_count > 0 => alloc_ref_count >= 1

\* C6 witness: the last Arc::drop is between its two decrements: no Arc is
\* left and the Arcs' unit is still counted.
C6_Witness ==
    /\ BetterWeak /\ LastDropPending
    /\ data_ref_count = 0
    /\ alloc_ref_count = TotalWeak + 1

\* C7: in both modules, once no Arc is left and the last Arc::drop has
\* completed while Weaks remain, the destructor has run exactly once and the
\* allocation is not freed; no allocation is freed while a Weak is live; an
\* upgrade during which no Arc was live returns None, and one during which
\* an Arc was live throughout returns Some.
C7_AfterLastArc ==
    /\ (TotalStrong = 0 /\ ~LastDropPending /\ TotalWeak >= 1)
          => NUM_DROPS = 1 /\ num_frees = 0
    /\ TotalWeak >= 1 => num_frees = 0 /\ \A t \in Threads : pc[t] # "free"
    /\ \A t \in Threads :
          InUpgradeReturn(t) =>
             /\ "live" \notin seen[t] => result[t] = "None"
             /\ seen[t] = {"live"} => result[t] = "Some"

\* C7 witness: the last Arc is dropped, two Weaks remain and an upgrade
\* called after the drop returns None.
C7_Witness ==
    /\ TotalStrong = 0 /\ ~LastDropPending /\ TotalWeak = 2
    /\ \E t \in Threads :
          InUpgradeReturn(t) /\ result[t] = "None" /\ seen[t] = {"dead"}

\* C8: in both modules, an upgrade during which an Arc whose drop had not
\* begun existed at every moment returns Some, the payload is not destroyed
\* and no access of it has raced.
C8_UpgradeWhileLive ==
    \A t \in Threads :
       (InUpgradeReturn(t) /\ seen[t] = {"live"}) =>
          /\ result[t] = "Some"
          /\ strongHeld[t] >= 1
          /\ NUM_DROPS = 0
          /\ faults = {}

\* C8 witness: an upgrade returns Some while another thread holds an Arc
\* and the counter has moved since the upgrade first read it.
C8_Witness ==
    \E t \in Threads :
       /\ InUpgradeReturn(t) /\ result[t] = "Some" /\ seen[t] = {"live"}
       /\ \E u \in Threads \ {t} : strongHeld[u] >= 1
       /\ data_ref_count = 3

\* C9: in both modules, when every handle is dropped and every operation has
\* returned, both counters are 0, the payload is destroyed exactly once and
\* the allocation is freed exactly once, with no double free.
AllDropped == TotalStrong = 0 /\ TotalWeak = 0 /\ AllIdle /\ ~aborted
C9_NoLeakNoDoubleFree ==
    AllDropped =>
       /\ data_ref_count = 0
       /\ alloc_ref_count = 0
       /\ NUM_DROPS = 1
       /\ num_frees = 1
       /\ "double_free" \notin faults

\* C9 witness: every handle is dropped, every operation has returned and
\* both counters are back at 0.
C9_Witness ==
    AllDropped /\ data_ref_count = 0 /\ alloc_ref_count = 0 /\ num_frees = 1

\* C10: with the orderings and fences of the source, no payload access
\* races with or follows the payload's destruction, and no access of the
\* allocation races with or follows its free.
C10_DestructionOrdered ==
    faults \cap {"data_race", "use_after_drop", "alloc_race", "use_after_free"}
       = {}

\* C10 witness: the thread about to destroy the payload has not seen another
\* thread's last read of it, and its fence is what orders that read first.
C10_Witness ==
    \E t \in Threads :
       /\ pc[t] = "drop_data"
       /\ unseen[t] # {}
       /\ unseen[t] \cap pend[t] = {}

\* What the counters are when every handle is counted once: data_ref_count
\* the Arcs; alloc_ref_count, in better_weak, the Weaks plus one for all the
\* Arcs (until the last Arc::drop has dropped that unit) and, in with_weak,
\* the Arcs and the Weaks, the operations between their two counter updates
\* taken into account.
CountAt(pcs) == Cardinality({t \in Threads : pc[t] \in pcs})
AllocExpected ==
    IF BetterWeak
    THEN TotalWeak + (IF data_ref_count > 0 \/ LastDropPending THEN 1 ELSE 0)
    ELSE TotalStrong + TotalWeak + CountAt({"clone_data"}) + CountAt(ArcDropPcs)
           - CountAt({"up_clone"})
ReturnsNone(t) ==
    \/ pc[t] = "up_ret" /\ result[t] = "None"
    \/ pc[t] = "gm_ret" /\ gmResult[t] = "None"

\* C13: when an upgrade or a get_mut is about to return None, both counters
\* are what the handles that exist make them (the call has added and removed
\* nothing; a get_mut that held the sentinel has put 1 back), the payload is
\* destroyed only if no Arc is left, upgrade has read 0 and not reached its
\* assertion, and nothing has aborted or panicked.
C13_NoneLeavesNoTrace ==
    \A t \in Threads :
       ReturnsNone(t) =>
          /\ data_ref_count = TotalStrong
          /\ alloc_ref_count = AllocExpected
          /\ alloc_ref_count # USIZE_MAX
          /\ NUM_DROPS = (IF TotalStrong = 0
                             /\ \A u \in Threads : pc[u] # "drop_data"
                          THEN 1 ELSE 0)
          /\ pc[t] = "up_ret" => n[t] = 0
          /\ ~aborted
          /\ \A u \in Threads : pc[u] \notin {"abort", "panicked"}

\* C13 witness: a get_mut through the only Weak, no Arc being left, is about
\* to return None and alloc_ref_count is 1.
C13_Witness ==
    /\ BetterWeak
    /\ \E t \in Threads :
          /\ pc[t] = "gm_ret" /\ gmResult[t] = "None"
          /\ weakHeld[t] = 1 /\ TotalWeak = 1 /\ TotalStrong = 0
          /\ alloc_ref_count = 1 /\ data_ref_count = 0

\* ------------------------------------------------------------ C14: SpecCas
LoopPcs == {"up_load", "up_cas"}

\* C14 as stated: upgrade never waits for another thread, and every failed
\* compare-and-swap of its loop follows a modification of data_ref_count by
\* another thread since n was read.
C14_FailedCasMeansContention ==
    \A t \in Threads :
       /\ (pc[t] \in UpgradePcs /\ ~aborted) => ENABLED UpgradeStep(t)
       /\ seen[t] \cap {"fail_spurious", "fail_unexplained"} = {}

\* C14 amended: upgrade never waits for another thread; a failed
\* compare_exchange_weak that found a value other than n follows a
\* modification of data_ref_count by another thread, the other failures are
\* spurious ones that found n; and, compare_exchange_weak not failing
\* spuriously for ever, either data_ref_count is modified again and again or
\* every upgrade leaves its loop.
C14_UpgradeProgress ==
    /\ [](\A t \in Threads :
            /\ (pc[t] \in UpgradePcs /\ ~aborted) => ENABLED UpgradeStep(t)
            /\ "fail_unexplained" \notin seen[t])
    /\ \A t \in Threads :
          \/ []<>(pc[t] \notin LoopPcs)
          \/ []<><<data_ref_count' # data_ref_count>>_vars

\* C14 witness: an upgrade is about to return Some after a failure caused by
\* another thread and a spurious one.
C14_Witness ==
    \E t \in Threads :
       /\ pc[t] = "up_ret" /\ result[t] = "Some"
       /\ {"fail_contended", "fail_spurious"} \subseteq seen[t]

\* --------------------------------------------------- C11, C12: SpecOverflow
\* A step in which a clone's fetch_add returns more than usize::MAX / 2 sends
\* its thread to std::process::abort() and makes no handle.
CloneAbortRule ==
    \A t \in Threads :
       /\ (ArcClone(t) /\ data_ref_count > AbortThreshold)
             => pc'[t] = "abort" /\ strongHeld' = strongHeld
       /\ ((WeakClone(t) \/ Downgrade(t)) /\ alloc_ref_count > AbortThreshold)
             => pc'[t] = "abort" /\ weakHeld' = weakHeld
StrongCountWraps == data_ref_count = USIZE_MAX /\ data_ref_count' = 0
AllocCountWraps == alloc_ref_count = USIZE_MAX /\ alloc_ref_count' = 0

CallsAt(pcs) == Cardinality({t \in Threads : chan.chan_pc[t] \in pcs})

\* C15: of all the sends made so far, exactly the first to swap in_use has
\* found it false; it alone writes the slot (once, its own message) and
\* stores ready (once); every other send has panicked, and none of them has
\* written the slot or stored ready.
C15_FirstSendAlone ==
    /\ chan.log.wins = (IF chan.log.swaps >= 1 THEN 1 ELSE 0)
    /\ chan.log.panics = chan.log.swaps - chan.log.wins
    /\ chan.in_use <=> chan.log.swaps >= 1
    /\ chan.log.writes + CallsAt({"send_write"}) = chan.log.wins
    /\ chan.log.stores + CallsAt({"send_store"}) = chan.log.writes
    /\ chan.message = (IF chan.log.writes = 1 THEN chan.log.msg ELSE Uninit)
    /\ chan.ready => chan.log.stores = 1
    /\ \A t \in Threads :
          /\ chan.chan_pc[t] \in {"send_write", "send_store"}
                => chan.arg[t] = chan.log.msg
          /\ (chan.ret[t].op = "send" /\ chan.ret[t].out = "panic")
                => chan.ret[t].old /\ chan.chan_pc[t] = "idle"
    /\ "overwritten" \notin chan.chan_faults

\* C15 witness: the first send has stored ready, the message has been
\* received, and two more sends have panicked, the latest of them now, after
\* the receive: the slot still holds the first message.
C15_Witness ==
    /\ chan.log.panics >= 2
    /\ chan.log.stores = 1
    /\ chan.log.reads = 1
    /\ ~chan.ready
    /\ chan.message = chan.log.msg
    /\ \E t \in Threads :
          /\ chan.ret[t].op = "send" /\ chan.ret[t].out = "panic"
          /\ \E u \in Threads \ {t} :
                chan.ret[u].op = "receive" /\ chan.ret[u].out = "value"

\* C16: a receive panics exactly when its swap found ready false; otherwise
\* it has reset ready and returns exactly the message that was sent, by a
\* read that is ordered after the write; and while is_ready has returned true
\* and no receive has happened since, ready is still set and the slot holds
\* the sent message, so the next receive returns it.
C16_ReceiveTakesTheMessage ==
    /\ \A t \in Threads :
          /\ chan.ret[t].op = "receive" =>
                /\ chan.ret[t].out = "panic" <=> ~chan.ret[t].old
                /\ chan.ret[t].out = "value" =>
                      chan.ret[t].val = chan.log.msg /\ chan.log.msg # Uninit
                /\ chan.ret[t].out # "garbage"
          /\ chan.chan_pc[t] = "recv_read" =>
                /\ ~chan.ready /\ chan.sees[t]
                /\ chan.message = chan.log.msg /\ chan.log.msg # Uninit
          /\ chan.knownReady[t] => chan.ready
    /\ chan.ready =>
          /\ chan.published
          /\ chan.message = chan.log.msg /\ chan.log.msg # Uninit
    /\ chan.log.reads >= 1 => ~chan.ready
    /\ chan.chan_faults = {}

\* C16 witness: is_ready has returned true to one thread, and another thread's
\* receive has since swapped ready and is about to read the slot.
C16_Witness ==
    \E t \in Threads :
        /\ chan.chan_pc[t] = "recv_read"
        /\ \E u \in Threads \ {t} :
              /\ chan.ret[u].op = "is_ready" /\ chan.ret[u].old
              /\ ~chan.knownReady[u]
        /\ chan.log.recvPanics = 1

\* A thread of the test has panicked: the scope, and the test, end in a panic.
TestPanicked == \E t \in Threads : chan.chan_pc[t] = "panicked"
\* The scenario has run to its end: the spawned thread has sent Hello and
\* unparked, and the main thread's receive has found ready set, as it does
\* after waiting for is_ready.
ScenarioEnded ==
    /\ chan.chan_pc[Spawned] = "done"
    /\ chan.chan_pc[Main] \in {"done", "panicked"}
    /\ chan.log.msg = Hello
    /\ chan.ret[Main].op = "receive"
    /\ chan.ret[Main].old

StrongSideStep(t) ==
    \/ ArcClone(t)
    \/ UpgradeCall(t) \/ UpgradeLoad(t) \/ UpgradeCas(t)
    \/ UpgradeCasSpurious(t) \/ UpgradeReturn(t)
    \/ ArcDropDec(t) \/ ArcDropData(t)

\* C18: in better_weak no step of Arc::clone, of a Weak::upgrade (successful
\* or not) or of an Arc::drop that did not take data_ref_count from 1 to 0
\* changes alloc_ref_count; an Arc::drop goes on to the payload and to the
\* implicit Weak only when its fetch_sub took data_ref_count from 1 to 0, at
\* most one drop does, and its drop of the implicit Weak lowers
\* alloc_ref_count by exactly one, after the payload's destructor has run.
C18_OnlyLastDropTouchesAllocCount ==
    [][\A t \in Threads :
          /\ StrongSideStep(t) => alloc_ref_count' = alloc_ref_count
          /\ ArcDropDec(t) =>
                /\ pc'[t] = "drop_data" <=> data_ref_count = 1
                /\ pc'[t] = "idle" <=> data_ref_count # 1
                /\ pc'[t] = "drop_data" => data_ref_count' = 0
          /\ ArcDropData(t) => NUM_DROPS = 0 /\ NUM_DROPS' = 1
          /\ ArcDropWeak(t) =>
                /\ alloc_ref_count >= 1
                /\ alloc_ref_count' = alloc_ref_count - 1
                /\ NUM_DROPS = 1
                /\ data_ref_count = 0
          /\ (BetterWeak /\ pc[t] \in ArcDropPcs) =>
                \A u \in Threads \ {t} : pc[u] \notin ArcDropPcs
      ]_vars

\* C18 witness: the drop of the last Arc has destroyed the payload and then
\* taken alloc_ref_count from 1 to 0, no Weak being left; it is about to free
\* the allocation.
C18_Witness ==
    /\ BetterWeak
    /\ \E t \in Threads : pc[t] = "free"
    /\ TotalWeak = 0
    /\ TotalStrong = 0
    /\ NUM_DROPS = 1
    /\ alloc_ref_count = 0
    /\ data_ref_count = 0

\* A step of better_weak that performs a fetch_add or a fetch_sub on
\* alloc_ref_count: Weak::clone, downgrade, Weak::drop, and the drop of the
\* implicit Weak at the end of the last Arc::drop.
WeakCountStep(t) ==
    WeakClone(t) \/ Downgrade(t) \/ WeakDropDec(t) \/ ArcDropWeak(t)

\* C19: alloc_ref_count holds the sentinel exactly while a get_mut is between
\* its successful compare_exchange and its store; a get_mut about to return
\* has released it, and has put 1 back if it had taken it; while the sentinel
\* is held the Weak borrowed by get_mut is the only handle, no Arc::drop is
\* unfinished, every other thread is outside any operation, and no fetch_add
\* or fetch_sub on alloc_ref_count (Weak::clone, downgrade, Weak::drop, the
\* drop of the implicit Weak) can be performed.
C19_SentinelIsReleased ==
    BetterWeak =>
        /\ alloc_ref_count = USIZE_MAX <=> SentinelHeld
        /\ \A t \in Threads :
              /\ pc[t] \in {"gm_load", "gm_store"} =>
                    /\ weakHeld[t] = 1 /\ TotalWeak = 1 /\ TotalStrong = 0
                    /\ ~LastDropPending
                    /\ \A u \in Threads \ {t} : pc[u] = "idle"
                    /\ \A u \in Threads : ~ENABLED WeakCountStep(u)
              /\ pc[t] = "gm_ret" =>
                    /\ alloc_ref_count # USIZE_MAX
                    /\ (TotalWeak = 1 /\ TotalStrong = 0 /\ ~LastDropPending)
                          => alloc_ref_count = 1

\* C19 witness: a get_mut has swapped the sentinel in and has loaded
\* data_ref_count; its store of 1 is still to come.
C19_Witness ==
    /\ BetterWeak
    /\ alloc_ref_count = USIZE_MAX
    /\ \E t \in Threads : pc[t] = "gm_store" /\ ~is_unique[t]

\* C20 as stated: in with_weak alloc_ref_count >= data_ref_count in every
\* reachable state, concurrent upgrades through one shared Weak included.
C20_AllocCoversData == WithWeak => alloc_ref_count >= data_ref_count

\* C20 amended: in with_weak data_ref_count is the number of Arcs, and
\* alloc_ref_count is the number of Arcs and Weaks, plus the Arc::clone and
\* Arc::drop calls between their two steps, minus the upgrades that have
\* incremented data_ref_count and have not yet cloned their Weak; so
\* alloc_ref_count >= data_ref_count holds when no upgrade is in that window,
\* and alloc_ref_count plus the number of such upgrades covers
\* data_ref_count always.  Nothing is freed or destroyed early by it.
C20_AllocCoversDataButForUpgrades ==
    WithWeak =>
        /\ data_ref_count = TotalStrong
        /\ alloc_ref_count = AllocExpected
        /\ alloc_ref_count + CountAt({"up_clone"}) >= data_ref_count + TotalWeak
        /\ CountAt({"up_clone"}) = 0 => alloc_ref_count >= data_ref_count
        /\ Lent => TotalWeak >= 1 /\ num_frees = 0
        /\ faults = {}

\* C20 witness: two upgrades through the only Weak have both incremented
\* data_ref_count and neither has cloned the Weak yet: data_ref_count is
\* above alloc_ref_count.
C20_Witness ==
    /\ WithWeak
    /\ CountAt({"up_clone"}) = 2
    /\ TotalWeak = 1
    /\ data_ref_count = alloc_ref_count + 1

\* ------------------------------------------------------------------- C21
\* with_weak's get_mut is about to hand out &mut T.
WW_GetMutGrants(t) == WithWeak /\ pc[t] = "gm_ret" /\ gmResult[t] = "Some"

\* C21: in with_weak, when Arc::get_mut returns a mutable reference no other
\* Arc and no Weak to the allocation exists, no other thread is inside an
\* upgrade, a clone or a drop, and the payload Option is Some, so that the
\* unwrap does not panic; and get_mut returns None when the alloc_ref_count
\* it loaded was not 1.
C21_GetMutIsExclusive ==
    /\ \A t \in Threads :
          WW_GetMutGrants(t) =>
             /\ strongHeld[t] = 1 /\ TotalStrong = 1 /\ TotalWeak = 0
             /\ data_ref_count = 1 /\ alloc_ref_count = 1
             /\ \A u \in Threads \ {t} : pc[u] = "idle"
             /\ NUM_DROPS = 0 /\ num_frees = 0
    /\ \A t \in Threads :
          (WithWeak /\ pc[t] = "gm_ret" /\ ~is_unique[t])
             => gmResult[t] = "None"
    /\ WithWeak => \A t \in Threads : pc[t] # "unwrap_panic"

\* C21 witness: get_mut grants access to a thread other than the one that
\* made the allocation, which holds no handle any more.
C21_Witness ==
    \E t \in Threads \ {1} :
       /\ WW_GetMutGrants(t)
       /\ strongHeld[1] = 0 /\ weakHeld[1] = 0

\* ------------------------------------------------------------------- C22
\* The slot's message has been taken out, or is being taken out, by receive.
Received == chan.log.reads + CallsAt({"recv_read"})
\* The ways a use of the slot can go wrong.
SlotFaults == {"read_uninit", "data_race", "read_twice", "overwritten",
               "drop_uninit", "dropped_twice"}

\* C22: in the one-shot channel, under every interleaving of send, is_ready,
\* receive and the drop of the Channel, the slot is written at most once; it
\* is read, by receive or by the drop, only after that write and the store
\* of ready that follows it; a sent message is taken by at most one of the
\* receive whose swap found ready set (after which ready is unset, so that a
\* further receive panics) and the drop that finds ready still set, and by
\* exactly one of them once the Channel is dropped; and the slot of a channel
\* nothing was sent on is neither read nor dropped.
C22_SlotLifecycle ==
    OneShot =>
       /\ chan.log.writes <= 1
       /\ Received + chan.log.drops <= chan.log.stores
       /\ chan.log.stores <= chan.log.writes
       /\ Received + chan.log.drops <= 1
       /\ Received >= 1 => ~chan.ready
       /\ ~chan.log.dropped =>
             /\ chan.log.drops = 0
             /\ chan.ready <=> (chan.log.stores = 1 /\ Received = 0)
       /\ chan.log.dropped =>
             /\ chan.log.reads + chan.log.drops = chan.log.writes
             /\ chan.log.drops = 1 <=> chan.ready
       /\ chan.log.writes = 0 =>
             /\ chan.message = Uninit
             /\ Received = 0 /\ chan.log.drops = 0
       /\ chan.chan_faults \cap SlotFaults = {}
       /\ \A t \in Threads :
             (chan.ret[t].op = "receive" /\ chan.ret[t].out = "panic"
                /\ chan.log.stores = 1 /\ ~chan.log.dropped)
                => (Received = 1 \/ chan.ready)

\* C22 witness: the Channel is dropped with its message still in the slot,
\* a receive that came before the send having panicked: the drop, and no
\* receive, has taken the message.
C22_Witness ==
    /\ OneShot
    /\ chan.log.dropped
    /\ chan.log.drops = 1 /\ chan.log.reads = 0
    /\ chan.log.writes = 1
    /\ chan.log.recvPanics = 1

\* ------------------------------------------------------------------- C23
\* Thread r is inside receive.
InReceive(r) == chan.chan_pc[r] \in {"recv_lock", "recv_loop", "recv_wait",
                                     "recv_relock"}
\* The sends that have not yet pushed their message.
SendsPending ==
    Cardinality({t \in Users : chan.chan_pc[t] \in {"send_lock", "send_push"}})

\* Every message passed to send is in the queue or has been returned by a
\* receive, once and in the order of the push_backs; a receive returns the
\* message it popped; and the lock is held exactly by a thread inside a
\* critical section.
QueueIsFifo ==
    Simple =>
       /\ chan.log.popped \o chan.queue = chan.log.pushed
       /\ Len(chan.log.pushed) + SendsPending = chan.log.sends
       /\ \A t \in Users :
             /\ (chan.ret[t].op = "receive" /\ chan.ret[t].out = "value")
                   => /\ chan.ret[t].old
                      /\ \E i \in 1..Len(chan.log.popped) :
                            chan.log.popped[i] = chan.ret[t].val
             /\ chan.mutex = t <=> chan.chan_pc[t] \in {"send_push", "recv_loop"}
             /\ t \in chan.item_ready <=> chan.chan_pc[t] = "recv_wait"

\* C23: in the queue channel, with several senders and receivers, every
\* message passed to send is returned by one receive and by no other, the
\* messages are returned in the order in which their push_back took the lock,
\* and a receiver inside receive does not stay there for ever while the queue
\* holds a message: it returns, or another receiver takes the message.
C23_FifoAndNoLostWakeup ==
    /\ []QueueIsFifo
    /\ \A r \in Users :
          (InReceive(r) /\ chan.queue # <<>>)
             ~> (~InReceive(r) \/ chan.queue = <<>>)

\* C23 witness: a receiver that found the queue empty and blocked has been
\* woken by a send's notify_one and is on its way to the lock, while a
\* second message is in the queue behind the first and another receiver
\* has already returned a message.
C23_Witness ==
    /\ Simple
    /\ Len(chan.queue) = 2
    /\ Len(chan.log.popped) = 1
    /\ \E r \in Users :
          /\ chan.chan_pc[r] = "recv_relock"
          /\ \E u \in Users \ {r} :
                chan.ret[u].op = "receive" /\ chan.ret[u].out = "value"

============================================================================
